---- MODULE Spec2Model ----
(***************************************************************************)
(* A model of jupythunder2: the bounded execution history                  *)
(* (jupythunder2/history.py), the two kernel sessions                      *)
(* (jupythunder2/kernel/executor.py, jupythunder2/runtime/kernel.py), the  *)
(* workflows (jupythunder2/workflows) and the session store                *)
(* (jupythunder2/store/session.py).                                        *)
(***************************************************************************)
EXTENDS Integers, Sequences, FiniteSets, TLC

VARIABLES
    \* ---- ExecutionHistory (history.py) ----
    limit,      \* ExecutionHistory._limit
    entries,    \* ExecutionHistory._entries
    file,       \* the history file: NoFile, or the JSON document written by save
    out,        \* what the last call returned to its caller
    added,      \* every cell passed to add, in arrival order (history variable)
    saved,      \* the entries the last save wrote (history variable)
    \* ---- KernelSession (kernel/executor.py), KernelRunner (runtime/kernel.py) ----
    impl,       \* which of the two session classes this session is
    is_running, \* KernelSession._is_running (KernelRunner has no such flag)
    client,     \* self._client: "None", or a client with "started"/"stopped" channels
    kernel,     \* the backend process of self._manager: "down" or "up"
    starts,     \* start_kernel launches in the current Running period (history)
    shutdowns,  \* shutdown_kernel calls in the current Running period (history)
    pc,         \* where the caller is: "idle", or inside execute()
    msg_id,     \* the request id of the current execute(); 0 before the first
    result,     \* the ExecutionResult being built
    reply,      \* KernelSession: the content of the matching shell reply
    reads,      \* channel reads made by the current execute()
    lastMsg,    \* the message the last channel read returned
    heard,      \* what the stream has delivered for the current request (history)
    ret,        \* how the last finished call ended, and what it returned
    call,       \* what the current or last call did (history variable)
    \* ---- Workflow (workflows/models.py), WorkflowRepository (workflows/storage.py) ----
    workflow,   \* the Workflow in the caller's hands: name, description, steps
    files,      \* the repository directory: file stem -> JSON document
    wout,       \* what the last Workflow / WorkflowRepository call returned
    kept,       \* per file stem, the Workflow the last save wrote there (history)
    \* ---- WorkflowRunner.run (workflows/runner.py) ----
    opts,       \* the keyword arguments of run() and the collaborators supplied
    rpc,        \* where run() is: "idle", "loop", "returned" or "raised"
    index,      \* the index of the step the for loop takes next
    session,    \* the local variable session: "None" or "KernelSession"
    run_result, \* the WorkflowRunResult being built: outcomes, failed_step_index
    history_updated, \* the local variable history_updated
    trace,      \* the calls run() has made, in order (history variable)
    \* ---- SessionStore (store/session.py) ----
    session_dir,  \* SessionStore._session_dir (and with it _events_file)
    start_time,   \* SessionStore._start_time
    event_count,  \* SessionStore._event_count
    run_root,     \* the directories under run_root: events.jsonl and session.json
    clock,        \* datetime.now(), in seconds
    sout,         \* what the last SessionStore call returned
    appends       \* append_event calls since the last start_session (history)

hvars == <<limit, entries, file, out, added, saved>>

kvars == <<impl, is_running, client, kernel, starts, shutdowns, pc, msg_id, result, reply, reads, lastMsg, heard, ret, call>>

wvars == <<workflow, files, wout, kept>>

rvars == <<opts, rpc, index, session, run_result, history_updated, trace>>

svars == <<session_dir, start_time, event_count, run_root, clock, sout, appends>>

vars == <<limit, entries, file, out, added, saved, impl, is_running, client, kernel, starts, shutdowns, pc, msg_id, result, reply, reads, lastMsg, heard, ret, call, workflow, files, wout, kept, opts, rpc, index, session, run_result, history_updated, trace, session_dir, start_time, event_count, run_root, clock, sout, appends>>

\* What an operation of one component leaves alone in the others.
WorkflowFrame == UNCHANGED wvars
RunFrame == UNCHANGED rvars
StoreFrame == UNCHANGED svars
HistoryFrame == UNCHANGED hvars /\ WorkflowFrame /\ RunFrame /\ StoreFrame
KernelFrame == UNCHANGED kvars /\ WorkflowFrame /\ RunFrame /\ StoreFrame

\* ------------------------------------------------------------------ bounds
MaxLimit == 2       \* limits tried: 1..MaxLimit
MaxAdds == 3        \* add calls per history
MaxCount == 3       \* recent(count) arguments tried: 0..MaxCount
MaxRequests == 2    \* execute() calls per session
MaxReads == 3       \* channel reads per execute() call
MaxShutdowns == 2   \* shutdown_kernel calls per Running period

\* ------------------------------------------------------- Python values
\* A Python object is tagged with its type, so that None, "3" and 3 differ.
PyNone == [t |-> "None"]
PyStr(s) == [t |-> "str", v |-> s]
PyInt(n) == [t |-> "int", v |-> n]
PyList(xs) == [t |-> "list", v |-> xs]

\* xs[-k:] of a Python list: for k > 0 the last min(k, len) items, for k = 0
\* the slice xs[0:], i.e. everything, for k < 0 the slice xs[|k|:].
PySliceLast(xs, k) ==
    LET n == Len(xs)
        start == IF -k < 0 THEN (IF n - k < 0 THEN 0 ELSE n - k)
                 ELSE (IF -k > n THEN n ELSE -k)
    IN  SubSeq(xs, start + 1, n)

\* str(x) as from_dict applies it to code, stdout and stderr.
DigitStr == <<"0", "1", "2", "3", "4", "5", "6", "7", "8", "9">>
PyStrOf(x) ==
    CASE x.t = "str" -> x
      [] x.t = "None" -> PyStr("None")
      [] x.t = "int" -> PyStr(DigitStr[x.v + 1])
      [] OTHER -> PyStr("[...]")

\* list(x) as from_dict applies it to traceback.
PyListOf(x) == IF x.t = "list" THEN x ELSE PyList(<<>>)

\* ------------------------------------------------------- ExecutedCell
ExecutedCell(code, stdout, stderr, res, error_name, error_value, traceback, execution_count) ==
    [code |-> code, stdout |-> stdout, stderr |-> stderr, result |-> res,
     error_name |-> error_name, error_value |-> error_value,
     traceback |-> traceback, execution_count |-> execution_count]

\* The cells the callers add: a plain success, a failure with a traceback
\* (the three cells of test_execution_history_persistence, two of them kept).
CellOk ==
    ExecutedCell(PyStr("sum(range(3))"), PyStr("1"), PyStr(""), PyStr("3"),
                 PyNone, PyNone, PyList(<<>>), PyInt(3))
CellErr ==
    ExecutedCell(PyStr("1/0"), PyStr(""), PyStr("warn"), PyNone,
                 PyStr("ZeroDivisionError"), PyStr("division by zero"),
                 PyList(<<"Traceback">>), PyNone)
Cells == {CellOk, CellErr}

\* ------------------------------------------------------- JSON documents
JNull == [j |-> "null"]
JString(s) == [j |-> "string", s |-> s]
JNumber(n) == [j |-> "number", n |-> n]
JArray(xs) == [j |-> "array", items |-> xs]

\* json.dumps of one Python value (None, str, int, list of str).
json_dumps(x) ==
    CASE x.t = "None" -> JNull
      [] x.t = "str" -> JString(x.v)
      [] x.t = "int" -> JNumber(x.v)
      [] OTHER -> JArray([i \in 1..Len(x.v) |-> JString(x.v[i])])

\* json.loads of one JSON value.
json_loads(v) ==
    CASE v.j = "null" -> PyNone
      [] v.j = "string" -> PyStr(v.s)
      [] v.j = "number" -> PyInt(v.n)
      [] OTHER -> PyList([i \in 1..Len(v.items) |-> v.items[i].s])

CellKeys == {"code", "stdout", "stderr", "result", "error_name", "error_value",
             "traceback", "execution_count"}

\* ExecutedCell.to_dict: asdict(self), traceback copied.
to_dict(cell) == [k \in CellKeys |-> cell[k]]

\* dict.get(key, default) on a decoded JSON object.
DictGet(data, key, default) == IF key \in DOMAIN data THEN data[key] ELSE default

\* from_dict reading the execution count under a key to_dict never writes.
from_dict_count_lost(data) ==
    ExecutedCell(PyStrOf(DictGet(data, "code", PyStr(""))),
                 PyStrOf(DictGet(data, "stdout", PyStr(""))),
                 PyStrOf(DictGet(data, "stderr", PyStr(""))),
                 DictGet(data, "result", PyNone),
                 DictGet(data, "error_name", PyNone),
                 DictGet(data, "error_value", PyNone),
                 PyListOf(DictGet(data, "traceback", PyList(<<>>))),
                 DictGet(data, "count", PyNone))

\* ExecutedCell.from_dict.
from_dict(data) ==
    ExecutedCell(PyStrOf(DictGet(data, "code", PyStr(""))),
                 PyStrOf(DictGet(data, "stdout", PyStr(""))),
                 PyStrOf(DictGet(data, "stderr", PyStr(""))),
                 DictGet(data, "result", PyNone),
                 DictGet(data, "error_name", PyNone),
                 DictGet(data, "error_value", PyNone),
                 PyListOf(DictGet(data, "traceback", PyList(<<>>))),
                 DictGet(data, "execution_count", PyNone))

\* ------------------------------------------------------- ExecutionHistory
NoFile == [exists |-> FALSE]
NoCall == [op |-> "none"]

\* __init__ keeping the first limit entries instead of the last.
HistoryInit_keeps_oldest(lim, ents) ==
    SubSeq(ents, 1, IF Len(ents) < lim THEN Len(ents) ELSE lim)

\* ExecutionHistory.__init__: self._entries = list(entries or [])[-limit:].
HistoryInit(lim, ents) == PySliceLast(ents, lim)

\* add truncating one entry too early (>= for >).
add_off_by_one(ents, lim, cell) ==
    LET appended == Append(ents, cell)
    IN  IF Len(appended) >= lim THEN PySliceLast(appended, lim - 1) ELSE appended

\* ExecutionHistory.add.
add(ents, lim, cell) ==
    LET appended == Append(ents, cell)
    IN  IF Len(appended) > lim THEN PySliceLast(appended, lim) ELSE appended

\* ExecutionHistory.recent; count = PyNone stands for the omitted argument.
recent(ents, count) ==
    IF count = PyNone THEN ents ELSE PySliceLast(ents, count.v)

\* ExecutionHistory.to_json: the JSON array of the entries' dicts.
to_json(ents) ==
    [i \in 1..Len(ents) |->
        [k \in CellKeys |-> json_dumps(to_dict(ents[i])[k])]]

\* ExecutionHistory.load: an absent file gives an empty history.
load(f, lim) ==
    IF ~f.exists THEN HistoryInit(lim, <<>>)
    ELSE LET entries_json == f.text
             decoded == [i \in 1..Len(entries_json) |->
                            from_dict([k \in DOMAIN entries_json[i] |->
                                          json_loads(entries_json[i][k])])]
         IN  HistoryInit(lim, decoded)

Add(cell) ==
    /\ Len(added) < MaxAdds
    /\ entries' = add(entries, limit, cell)
    /\ added' = Append(added, cell)
    /\ out' = [op |-> "add"]
    /\ UNCHANGED <<limit, file, saved>>
    /\ KernelFrame

Recent(count) ==
    /\ out' = [op |-> "recent", count |-> count, value |-> recent(entries, count),
               before |-> entries]
    /\ UNCHANGED <<limit, entries, file, added, saved>>
    /\ KernelFrame

Save ==
    /\ file' = [exists |-> TRUE, text |-> to_json(entries)]
    /\ saved' = entries
    /\ out' = [op |-> "save"]
    /\ UNCHANGED <<limit, entries, added>>
    /\ KernelFrame

Load(lim) ==
    /\ out' = [op |-> "load", limit |-> lim, value |-> load(file, lim),
               recent |-> recent(load(file, lim), PyNone)]
    /\ UNCHANGED <<limit, entries, file, added, saved>>
    /\ KernelFrame

\* A history just constructed: ExecutionHistory(limit=lim).
HistoryStart(lim) ==
    /\ limit = lim
    /\ entries = HistoryInit(lim, <<>>)
    /\ file = NoFile
    /\ out = NoCall
    /\ added = <<>>
    /\ saved = <<>>

HistoryNext ==
    \/ \E cell \in Cells : Add(cell)
    \/ \E count \in {PyNone} \cup {PyInt(n) : n \in 0..MaxCount} : Recent(count)
    \/ Save
    \/ \E lim \in 1..MaxLimit : Load(lim)

\* =================================================== the kernel sessions

\* dict.get(key, default): an absent key is modelled by PyNone.
GetOr(x, default) == IF x = PyNone THEN default ELSE x

\* Python truthiness of an optional str ("if text_output:").
Truthy(x) == x # PyNone /\ x # PyStr("")

\* ------------------------------------------------------- messages
\* Request ids: 1..MaxRequests are this session's requests, 0 is a request
\* of another client of the same backend.
\* The mime bundle of an execute_result / display_data event.
Datas ==
    {[text_plain |-> t, image_png |-> PyNone] : t \in {PyNone, PyStr(""), PyStr("a"), PyStr("b")}}
    \cup {[text_plain |-> PyStr("a"), image_png |-> PyStr("png")]}

\* ename / evalue / traceback of an error event or an error reply: all three
\* present, or all three absent.
ErrorFields(name) ==
    {[ename |-> PyNone, evalue |-> PyNone, traceback |-> PyNone],
     [ename |-> PyStr(name), evalue |-> PyStr("division by zero"), traceback |-> PyList(<<"Traceback">>)]}

\* The events of the broadcast (iopub) stream with parent request p.
IopubMsgs(p) ==
    {[parent |-> p, msg_type |-> "stream", name |-> n, text |-> t] :
        n \in {"stdout", "stderr", "other"}, t \in {"a", "b"}}
    \cup {[parent |-> p, msg_type |-> mt, data |-> d] :
        mt \in {"execute_result", "display_data"}, d \in Datas}
    \cup {[parent |-> p, msg_type |-> "error", content |-> c] :
        c \in ErrorFields("ZeroDivisionError")}
    \cup {[parent |-> p, msg_type |-> "status", execution_state |-> st] :
        st \in {"idle", "busy"}}

\* The replies of the shell channel with parent request p.
ShellMsgs(p) ==
    {[parent |-> p, msg_type |-> "execute_reply", status |-> "ok", execution_count |-> n, ename |-> PyNone, evalue |-> PyNone, traceback |-> PyNone] :
        n \in {PyNone, PyInt(1)}}
    \cup {[parent |-> p, msg_type |-> "execute_reply", status |-> "error", execution_count |-> PyInt(1), ename |-> c.ename, evalue |-> c.evalue, traceback |-> c.traceback] :
        c \in ErrorFields("ReplyError")}

NoMsg == [parent |-> -1, msg_type |-> "none"]
\* A channel read that raised: the timeout elapsed, or the transport failed.
ReadFailed(channel) == [parent |-> -1, msg_type |-> "timeout", channel |-> channel]
NoReply == [status |-> "none"]
NothingHeard == [error |-> FALSE]
NoResult == [none |-> TRUE]
NoRet == [op |-> "none", raised |-> FALSE, value |-> NoResult]
NotCalled == [op |-> "none"]

\* ------------------------------------------------------- result types
\* executor.py KernelError, runtime/kernel.py ExecutionError: built from the
\* ename, evalue and traceback of a message, with the code's defaults.
KernelError(c) ==
    [name |-> GetOr(c.ename, PyStr("Error")),
     value |-> GetOr(c.evalue, PyStr("")),
     traceback |-> GetOr(c.traceback, PyList(<<>>))]

\* executor.py ExecutionDisplay: the whole payload and the (empty) metadata.
ExecutionDisplay(data) == [data |-> data, metadata |-> <<>>]

\* executor.py ExecutionResult().
ExecutionResult ==
    [stdout |-> "", stderr |-> "", result |-> PyNone, execution_count |-> PyNone,
     displays |-> <<>>, error |-> PyNone]

\* runtime/kernel.py ExecutionResult().
RunnerExecutionResult ==
    [stdout |-> "", stderr |-> "", result_text |-> PyStr(""), images |-> <<>>,
     error |-> PyNone]

\* Every result counts as succeeded.
succeeded_always(res) == TRUE

\* ExecutionResult.succeeded.
succeeded(res) == res.error = PyNone

\* ------------------------------------------------------- lifecycle
\* The session object's fields, and the backend it owns.
Sess ==
    [is_running |-> is_running, client |-> client, kernel |-> kernel,
     starts |-> starts, shutdowns |-> shutdowns]

\* Running: KernelSession tests _is_running, KernelRunner tests _client.
Running(s) == IF impl = "KernelSession" THEN s.is_running ELSE s.client # "None"

\* self._manager.start_kernel() launching a backend; a launch from a session
\* that is not Running opens a new Running period.
start_kernel(s, wasRunning) ==
    [s EXCEPT !.kernel = "up", !.starts = @ + 1,
              !.shutdowns = IF wasRunning THEN @ ELSE 0]

\* self._manager.shutdown_kernel(now=True).
shutdown_kernel(s) == [s EXCEPT !.kernel = "down", !.shutdowns = @ + 1]

\* How a lifecycle call ended: the session after it, whether it raised, and
\* whether it launched / shut down a backend.
Ended(s, raised, launched, shut) ==
    [s |-> s, raised |-> raised, launched |-> launched, shut |-> shut]

\* KernelSession.start swallowing a failed start_kernel() and going on to
\* open the channels.
KernelSession_start_swallows(s, launch) ==
    IF s.is_running THEN Ended(s, FALSE, FALSE, FALSE)
    ELSE IF launch # "ok"
         THEN Ended([s EXCEPT !.client = "started", !.is_running = TRUE], FALSE, FALSE, FALSE)
         ELSE Ended([start_kernel(s, FALSE) EXCEPT !.client = "started", !.is_running = TRUE],
                    FALSE, TRUE, FALSE)

\* KernelSession.start; launch is what start_kernel() does: "ok" or "error"
\* (KernelExecutionError).
KernelSession_start(s, launch) ==
    IF s.is_running THEN Ended(s, FALSE, FALSE, FALSE)
    ELSE IF launch # "ok" THEN Ended(s, TRUE, FALSE, FALSE)
    ELSE Ended([start_kernel(s, FALSE) EXCEPT !.client = "started", !.is_running = TRUE],
               FALSE, TRUE, FALSE)

\* KernelSession.shutdown; stop is what stop_channels() does: "ok" or "raises".
\* shutdown_kernel runs in the finally clause; the two resets come after it
\* and are skipped when stop_channels raised.
KernelSession_shutdown(s, stop) ==
    IF ~s.is_running THEN Ended(s, FALSE, FALSE, FALSE)
    ELSE LET down == shutdown_kernel([s EXCEPT !.client = "stopped"])
         IN  IF stop = "raises" THEN Ended(down, TRUE, FALSE, TRUE)
             ELSE Ended([down EXCEPT !.is_running = FALSE, !.client = "None", !.starts = 0],
                        FALSE, FALSE, TRUE)

\* KernelRunner.start; launch is "ok", "fallback_ok" (NoSuchKernel, then the
\* fallback command starts), "fallback_error" (NoSuchKernel, then the
\* fallback fails: RuntimeError) or "error" (another exception).
KernelRunner_start(s, launch) ==
    IF s.client # "None" THEN Ended(s, FALSE, FALSE, FALSE)
    ELSE IF launch \in {"ok", "fallback_ok"}
         THEN Ended([start_kernel(s, FALSE) EXCEPT !.client = "started"], FALSE, TRUE, FALSE)
         ELSE Ended(s, TRUE, FALSE, FALSE)

\* KernelRunner.shutdown: shutdown_kernel and the reset of _client both run
\* in the finally clause.
KernelRunner_shutdown(s, stop) ==
    IF s.client = "None" THEN Ended(s, FALSE, FALSE, FALSE)
    ELSE Ended([shutdown_kernel(s) EXCEPT !.client = "None", !.starts = 0],
               stop = "raises", FALSE, TRUE)

\* KernelRunner.restart run as start() alone.
KernelRunner_restart_no_shutdown(s, stop, launch) == KernelRunner_start(s, launch)

\* KernelRunner.restart: shutdown(), then start() unless shutdown() raised.
KernelRunner_restart(s, stop, launch) ==
    LET a == KernelRunner_shutdown(s, stop)
        b == KernelRunner_start(a.s, launch)
    IN  IF a.raised THEN a ELSE Ended(b.s, b.raised, b.launched, a.shut)

SessionLaunches == {"ok", "error"}
RunnerLaunches == {"ok", "fallback_ok", "fallback_error", "error"}
Stops == {"ok", "raises"}

SetSess(s) ==
    /\ is_running' = s.is_running
    /\ client' = s.client
    /\ kernel' = s.kernel
    /\ starts' = s.starts
    /\ shutdowns' = s.shutdowns

\* A lifecycle call: it runs to its end in one step of the single caller.
Lifecycle(op, r) ==
    /\ pc = "idle"
    /\ SetSess(r.s)
    /\ ret' = [op |-> op, raised |-> r.raised, value |-> NoResult]
    /\ call' = [op |-> op, wasRunning |-> Running(Sess), launched |-> r.launched, shut |-> r.shut,
                sent |-> FALSE, clientAtSend |-> "None", kernelAtSend |-> "down"]
    /\ lastMsg' = NoMsg
    /\ reply' = NoReply
    /\ reads' = 0
    /\ heard' = NothingHeard
    /\ UNCHANGED <<impl, pc, msg_id, result>>
    /\ HistoryFrame

SessionStart(launch) ==
    /\ impl = "KernelSession"
    /\ Lifecycle("start", KernelSession_start(Sess, launch))

SessionShutdown(stop) ==
    /\ impl = "KernelSession"
    /\ shutdowns < MaxShutdowns
    /\ Lifecycle("shutdown", KernelSession_shutdown(Sess, stop))

RunnerStart(launch) ==
    /\ impl = "KernelRunner"
    /\ Lifecycle("start", KernelRunner_start(Sess, launch))

RunnerShutdown(stop) ==
    /\ impl = "KernelRunner"
    /\ Lifecycle("shutdown", KernelRunner_shutdown(Sess, stop))

RunnerRestart(stop, launch) ==
    /\ impl = "KernelRunner"
    /\ Lifecycle("restart", KernelRunner_restart(Sess, stop, launch))

\* ------------------------------------------------------- execute
\* KernelSession._extract_text: the text/plain entry when it is a str.
extract_text(data) == data.text_plain

\* The if/elif chain of KernelSession._consume_iopub on one event of the
\* current request that is not its idle status.
KernelSession_dispatch(res, msg) ==
    CASE msg.msg_type = "stream" ->
            IF msg.name = "stdout" THEN [res EXCEPT !.stdout = @ \o msg.text]
            ELSE IF msg.name = "stderr" THEN [res EXCEPT !.stderr = @ \o msg.text]
            ELSE res
      [] msg.msg_type = "execute_result" ->
            IF Truthy(extract_text(msg.data))
            THEN [res EXCEPT !.result = extract_text(msg.data)]
            ELSE res
      [] msg.msg_type = "display_data" ->
            [res EXCEPT !.displays = Append(@, ExecutionDisplay(msg.data))]
      [] msg.msg_type = "error" -> [res EXCEPT !.error = KernelError(msg.content)]
      [] OTHER -> res

\* _consume_iopub without the test of the parent request id.
KernelSession_consume_iopub_unfiltered(res, id, msg) ==
    IF msg.msg_type = "status" /\ msg.execution_state = "idle"
    THEN [result |-> res, break |-> TRUE]
    ELSE [result |-> KernelSession_dispatch(res, msg), break |-> FALSE]

\* One pass of the loop of KernelSession._consume_iopub over a received
\* event: events of other requests are skipped, the request's idle status
\* ends the loop.
KernelSession_consume_iopub(res, id, msg) ==
    IF msg.parent # id THEN [result |-> res, break |-> FALSE]
    ELSE IF msg.msg_type = "status" /\ msg.execution_state = "idle"
         THEN [result |-> res, break |-> TRUE]
         ELSE [result |-> KernelSession_dispatch(res, msg), break |-> FALSE]

\* The end of execute() never looking at the reply's status.
KernelSession_merge_reply_ignored(res, rep) == res

\* The end of KernelSession.execute: an error reply sets result.error.
KernelSession_merge_reply(res, rep) ==
    IF rep.status = "error" THEN [res EXCEPT !.error = KernelError(rep)] ELSE res

\* KernelRunner._write_image: the image written is named by its payload
\* (the file name is a fresh uuid).
write_image(payload) == payload

\* The loop of KernelRunner.execute ending at any status event of the
\* request, busy included.
KernelRunner_consume_iopub_any_status(res, id, msg) ==
    IF msg.parent # id THEN [result |-> res, break |-> FALSE]
    ELSE [result |-> res, break |-> msg.msg_type = "status"]

\* One pass of the loop of KernelRunner.execute over a received event.
KernelRunner_consume_iopub(res, id, msg) ==
    IF msg.parent # id THEN [result |-> res, break |-> FALSE]
    ELSE CASE msg.msg_type = "stream" ->
                [result |-> IF msg.name = "stdout"
                            THEN [res EXCEPT !.stdout = @ \o msg.text]
                            ELSE [res EXCEPT !.stderr = @ \o msg.text],
                 break |-> FALSE]
           [] msg.msg_type \in {"display_data", "execute_result"} ->
                LET withText == IF Truthy(msg.data.text_plain)
                                THEN [res EXCEPT !.result_text = msg.data.text_plain]
                                ELSE res
                IN  [result |-> IF Truthy(msg.data.image_png)
                                THEN [withText EXCEPT !.images = Append(@, write_image(msg.data.image_png))]
                                ELSE withText,
                     break |-> FALSE]
           [] msg.msg_type = "error" ->
                [result |-> [res EXCEPT !.error = KernelError(msg.content)], break |-> FALSE]
           [] msg.msg_type = "status" /\ msg.execution_state = "idle" ->
                [result |-> res, break |-> TRUE]
           [] OTHER -> [result |-> res, break |-> FALSE]

\* "if not self._is_running: self.start()" at the top of KernelSession.execute.
KernelSession_execute_start(s, launch) ==
    IF ~s.is_running THEN KernelSession_start(s, launch) ELSE Ended(s, FALSE, FALSE, FALSE)

\* "self.start()" at the top of KernelRunner.execute.
KernelRunner_execute_start(s, launch) == KernelRunner_start(s, launch)

\* execute() ends by raising: nothing is returned.
Raise(cause) ==
    /\ pc' = "idle"
    /\ ret' = [op |-> "execute", raised |-> TRUE, value |-> NoResult]
    /\ result' = NoResult
    /\ lastMsg' = cause

\* execute() ends by returning res.
Return(res, msg) ==
    /\ pc' = "idle"
    /\ ret' = [op |-> "execute", raised |-> FALSE, value |-> res]
    /\ result' = NoResult
    /\ lastMsg' = msg

\* The session's last call was an execute() that a failed channel read ended.
TimedOut == ret.op = "execute" /\ ret.raised /\ lastMsg.msg_type = "timeout"

\* The top of execute(): start the session if needed, assert the client,
\* send the request (client.execute returns its fresh request id) and make
\* the empty result. The code string itself plays no part in the protocol.
Execute(st, empty, next) ==
    /\ pc = "idle"
    /\ msg_id < MaxRequests
    /\ SetSess(st.s)
    /\ reply' = NoReply
    /\ reads' = 0
    /\ heard' = NothingHeard
    /\ IF st.raised \/ st.s.client = "None"
       THEN /\ Raise(NoMsg)
            /\ call' = [op |-> "execute", wasRunning |-> Running(Sess), launched |-> st.launched,
                        shut |-> FALSE, sent |-> FALSE, clientAtSend |-> "None", kernelAtSend |-> "down",
                        afterTimeout |-> TimedOut]
            /\ UNCHANGED msg_id
       ELSE /\ msg_id' = msg_id + 1
            /\ result' = empty
            /\ pc' = next
            /\ ret' = NoRet
            /\ lastMsg' = NoMsg
            /\ call' = [op |-> "execute", wasRunning |-> Running(Sess), launched |-> st.launched,
                        shut |-> FALSE, sent |-> TRUE, clientAtSend |-> st.s.client,
                        kernelAtSend |-> st.s.kernel, afterTimeout |-> TimedOut]
    /\ UNCHANGED impl
    /\ HistoryFrame

SessionExecute(launch) ==
    /\ impl = "KernelSession"
    /\ Execute(KernelSession_execute_start(Sess, launch), ExecutionResult, "shell")

RunnerExecute(launch) ==
    /\ impl = "KernelRunner"
    /\ Execute(KernelRunner_execute_start(Sess, launch), RunnerExecutionResult, "iopub")

\* Whether the stream has delivered an error event of request id.
Heard(h, id, m) ==
    IF m.parent = id /\ m.msg_type = "error" THEN [h EXCEPT !.error = TRUE] ELSE h

\* A read can return a message only while the backend is up and the
\* client's channels are started; otherwise it can only time out.
Connected == kernel = "up" /\ client = "started"

\* The message the call is blocked on: in _get_shell_reply the reply of the
\* request, in the stream loop the request's idle status.
MatchingReply(m) == m.parent = msg_id /\ m.msg_type = "execute_reply"
MatchingIdle(m) ==
    m.parent = msg_id /\ m.msg_type = "status" /\ m.execution_state = "idle"
Awaited(m) == IF pc = "shell" THEN MatchingReply(m) ELSE MatchingIdle(m)

\* MaxReads caps the messages one call reads while it waits; the message it
\* waits for (one reply, one idle status) can arrive after them all.
CanRead(m) == reads < MaxReads \/ (Awaited(m) /\ reads < MaxReads + 2)

SessFrame ==
    /\ UNCHANGED <<impl, is_running, client, kernel, starts, shutdowns, msg_id, call>>
    /\ HistoryFrame

\* _get_shell_reply taking the first reply read for the reply of its request.
SessionGetShellMsg_any_reply(m) ==
    /\ impl = "KernelSession" /\ pc = "shell" /\ CanRead(m)
    /\ Connected
    /\ reads' = reads + 1
    /\ lastMsg' = m
    /\ reply' = m
    /\ result' = [result EXCEPT !.execution_count = m.execution_count]
    /\ pc' = "iopub"
    /\ UNCHANGED <<ret, heard>>
    /\ SessFrame

\* KernelSession._get_shell_reply: one get_shell_msg(timeout) that returned a
\* reply; a reply of another request is skipped.
SessionGetShellMsg(m) ==
    /\ impl = "KernelSession" /\ pc = "shell" /\ CanRead(m)
    /\ Connected
    /\ reads' = reads + 1
    /\ lastMsg' = m
    /\ IF m.parent # msg_id
       THEN UNCHANGED <<pc, reply, result>>
       ELSE /\ reply' = m
            /\ result' = [result EXCEPT !.execution_count = m.execution_count]
            /\ pc' = "iopub"
    /\ UNCHANGED <<ret, heard>>
    /\ SessFrame

\* get_shell_msg raised: KernelExecutionError.
SessionShellTimeout ==
    /\ impl = "KernelSession" /\ pc = "shell"
    /\ Raise(ReadFailed("shell"))
    /\ UNCHANGED <<reply, reads, heard>>
    /\ SessFrame

\* KernelSession._consume_iopub: one get_iopub_msg(timeout) that returned an
\* event; at the request's idle status execute() merges the reply and returns.
SessionGetIopubMsg(m) ==
    /\ impl = "KernelSession" /\ pc = "iopub" /\ CanRead(m)
    /\ Connected
    /\ reads' = reads + 1
    /\ LET step == KernelSession_consume_iopub(result, msg_id, m)
       IN  IF step.break
           THEN Return(KernelSession_merge_reply(step.result, reply), m)
           ELSE /\ result' = step.result
                /\ lastMsg' = m
                /\ UNCHANGED <<pc, ret>>
    /\ heard' = Heard(heard, msg_id, m)
    /\ UNCHANGED reply
    /\ SessFrame

\* A timed-out stream read answered with the output collected so far.
SessionIopubTimeout_partial_result ==
    /\ impl = "KernelSession" /\ pc = "iopub"
    /\ Return(result, ReadFailed("iopub"))
    /\ UNCHANGED <<reply, reads, heard>>
    /\ SessFrame

\* get_iopub_msg raised: KernelExecutionError.
SessionIopubTimeout ==
    /\ impl = "KernelSession" /\ pc = "iopub"
    /\ Raise(ReadFailed("iopub"))
    /\ UNCHANGED <<reply, reads, heard>>
    /\ SessFrame

\* The loop of KernelRunner.execute: one get_iopub_msg(timeout) that
\* returned an event; the request's idle status ends the loop.
RunnerGetIopubMsg(m) ==
    /\ impl = "KernelRunner" /\ pc = "iopub" /\ CanRead(m)
    /\ Connected
    /\ reads' = reads + 1
    /\ lastMsg' = m
    /\ LET step == KernelRunner_consume_iopub(result, msg_id, m)
       IN  /\ result' = step.result
           /\ pc' = IF step.break THEN "drain" ELSE "iopub"
    /\ heard' = Heard(heard, msg_id, m)
    /\ UNCHANGED <<reply, ret>>
    /\ SessFrame

\* get_iopub_msg raised: the exception leaves execute() as it is.
RunnerIopubTimeout ==
    /\ impl = "KernelRunner" /\ pc = "iopub"
    /\ Raise(ReadFailed("iopub"))
    /\ UNCHANGED <<reply, reads, heard>>
    /\ SessFrame

\* "Drain the shell channel": one get_shell_msg(timeout), whatever it
\* returns is dropped, and the result is returned.
RunnerDrainShell(m) ==
    /\ impl = "KernelRunner" /\ pc = "drain"
    /\ Connected
    /\ reads' = reads + 1
    /\ Return(result, m)
    /\ UNCHANGED <<reply, heard>>
    /\ SessFrame

\* The drain's get_shell_msg raised: "except Exception: pass".
RunnerDrainTimeout ==
    /\ impl = "KernelRunner" /\ pc = "drain"
    /\ Return(result, ReadFailed("shell"))
    /\ UNCHANGED <<reply, reads, heard>>
    /\ SessFrame

\* A session just constructed: __init__ of either class.
KernelStart(cls) ==
    /\ impl = cls
    /\ is_running = FALSE
    /\ client = "None"
    /\ kernel = "down"
    /\ starts = 0
    /\ shutdowns = 0
    /\ pc = "idle"
    /\ msg_id = 0
    /\ result = NoResult
    /\ reply = NoReply
    /\ reads = 0
    /\ lastMsg = NoMsg
    /\ heard = NothingHeard
    /\ ret = NoRet
    /\ call = NotCalled

\* The requests whose messages a read can return while request msg_id runs:
\* the request itself, the session's previous request, and request 0 of
\* another client.
Known == {0, msg_id} \cup {p \in {msg_id - 1} : p >= 1}

KernelNext ==
    \/ \E launch \in SessionLaunches : SessionStart(launch)
    \/ \E stop \in Stops : SessionShutdown(stop)
    \/ \E launch \in SessionLaunches : SessionExecute(launch)
    \/ \E p \in Known : \E m \in ShellMsgs(p) : SessionGetShellMsg(m)
    \/ SessionShellTimeout
    \/ \E p \in Known : \E m \in IopubMsgs(p) : SessionGetIopubMsg(m)
    \/ SessionIopubTimeout
    \/ \E launch \in RunnerLaunches : RunnerStart(launch)
    \/ \E stop \in Stops : RunnerShutdown(stop)
    \/ \E stop \in Stops : \E launch \in RunnerLaunches : RunnerRestart(stop, launch)
    \/ \E launch \in RunnerLaunches : RunnerExecute(launch)
    \/ \E p \in Known : \E m \in IopubMsgs(p) : RunnerGetIopubMsg(m)
    \/ RunnerIopubTimeout
    \/ \E p \in Known : \E m \in ShellMsgs(p) : RunnerDrainShell(m)
    \/ RunnerDrainTimeout

\* ============================================================ workflows
MaxSteps == 3       \* steps per workflow

\* The indices remove_step / move_step are called with: every index of the
\* longest workflow, and beyond it on both sides.
Indices == -(MaxSteps + 1)..(MaxSteps + 1)

\* ------------------------------------------------------- text
\* A str whose characters matter (a name, a goal, a code) is the sequence of
\* its characters, wrapped by PyStr.
Whitespace == {" "}

\* c.lower() of one character.
LowerChar(c) == CASE c = "A" -> "a" [] c = "B" -> "b" [] c = "D" -> "d" [] OTHER -> c

\* str.lstrip(chars), str.rstrip(chars), str.strip(chars).
RECURSIVE lstrip(_, _)
lstrip(cs, chars) ==
    IF cs = <<>> \/ Head(cs) \notin chars THEN cs ELSE lstrip(Tail(cs), chars)

RECURSIVE rstrip(_, _)
rstrip(cs, chars) ==
    IF cs = <<>> \/ cs[Len(cs)] \notin chars THEN cs
    ELSE rstrip(SubSeq(cs, 1, Len(cs) - 1), chars)

strip(cs, chars) == rstrip(lstrip(cs, chars), chars)

\* str.lower().
lower(cs) == [i \in 1..Len(cs) |-> LowerChar(cs[i])]

\* Truthiness of an optional str: None and "" are falsy.
TextTruthy(x) == x.t = "str" /\ x.v # <<>>

\* "x or default" on an optional str.
TextOr(x, default) == IF TextTruthy(x) THEN x ELSE default

\* ------------------------------------------------------- WorkflowStep
\* step_type.lower() on the spellings callers use.
LowerType(t) ==
    CASE t = "Plan" -> "plan" [] t = "PLAN" -> "plan"
      [] t = "Execute" -> "execute" [] t = "EXECUTE" -> "execute"
      [] OTHER -> t

ALLOWED_TYPES == {"plan", "execute"}

\* How a call that can raise ended.
Raised(error) == [raised |-> TRUE, error |-> error]
Returned(value) == [raised |-> FALSE, value |-> value]

\* validate that looks at plan steps only.
validate_plan_only(step) == step.step_type = "plan" => TextTruthy(step.goal)

\* WorkflowStep.validate: TRUE when it raises nothing.
validate(step) ==
    /\ step.step_type = "plan" => TextTruthy(step.goal)
    /\ step.step_type = "execute" => TextTruthy(step.code)

\* WorkflowStep(...): the dataclass fields, then __post_init__.
WorkflowStep(step_type, name, description, goal, context, code) ==
    LET lowered == LowerType(step_type)
        step == [step_type |-> lowered,
                 name |-> IF TextTruthy(name) THEN name
                          ELSE IF lowered = "plan" THEN PyStr(<<"P", "l", "a", "n">>)
                          ELSE PyStr(<<"E", "x", "e", "c", "u", "t", "e">>),
                 description |-> description, goal |-> goal,
                 context |-> context, code |-> code]
    IN  IF lowered \notin ALLOWED_TYPES THEN Raised("ValueError")
        ELSE IF ~validate(step) THEN Raised("ValueError")
        ELSE Returned(step)

StepKeys == {"step_type", "name", "description", "goal", "context", "code"}

\* WorkflowStep.to_dict followed by json.dumps.
WorkflowStep_to_json(step) ==
    [k \in StepKeys |-> IF k = "step_type" THEN JString(step.step_type) ELSE json_dumps(step[k])]

\* WorkflowStep.from_dict dropping the description.
WorkflowStep_from_dict_no_description(data) ==
    WorkflowStep(IF "step_type" \in DOMAIN data THEN data.step_type.s ELSE "execute",
                 json_loads(DictGet(data, "name", JNull)),
                 PyStr(<<>>),
                 json_loads(DictGet(data, "goal", JNull)),
                 json_loads(DictGet(data, "context", JNull)),
                 json_loads(DictGet(data, "code", JNull)))

\* json.loads followed by WorkflowStep.from_dict.
WorkflowStep_from_dict(data) ==
    WorkflowStep(IF "step_type" \in DOMAIN data THEN data.step_type.s ELSE "execute",
                 json_loads(DictGet(data, "name", JNull)),
                 json_loads(DictGet(data, "description", JString(<<>>))),
                 json_loads(DictGet(data, "goal", JNull)),
                 json_loads(DictGet(data, "context", JNull)),
                 json_loads(DictGet(data, "code", JNull)))

\* The steps of test_workflow_modification_commands: a plan "1" and the
\* executes "2" and "3".
Step1 ==
    WorkflowStep("plan", PyStr(<<"1">>), PyStr(<<>>), PyStr(<<"a">>), PyNone, PyNone).value
Step2 ==
    WorkflowStep("execute", PyStr(<<"2">>), PyStr(<<>>), PyNone, PyNone, PyStr(<<"p", "2">>)).value
Step3 ==
    WorkflowStep("execute", PyStr(<<"3">>), PyStr(<<"t">>), PyNone, PyStr(<<>>), PyStr(<<"p", "3">>)).value
Steps == {Step1, Step2, Step3}

\* A step whose required field was emptied after construction.
StepEmptied == [Step2 EXCEPT !.code = PyStr(<<>>)]
StepGoalRemoved == [Step1 EXCEPT !.goal = PyNone]

\* What a step is constructed with: a plan "1" whose goal is None, the
\* empty string, a blank or a text, without code or with the code in place
\* of the goal; an execute "2" whose code is None, the empty string or a
\* text, without goal or with the goal in place of the code.
Goals == {PyNone, PyStr(<<>>), PyStr(<<" ">>), PyStr(<<"a">>)}
Codes == {PyNone, PyStr(<<>>), PyStr(<<"p", "2">>)}
NewStepArgs ==
    {[step_type |-> "plan", name |-> PyStr(<<"1">>), goal |-> g, code |-> PyNone] : g \in Goals}
    \cup {[step_type |-> "plan", name |-> PyStr(<<"1">>), goal |-> PyNone, code |-> PyStr(<<"p", "2">>)]}
    \cup {[step_type |-> "Execute", name |-> PyStr(<<"2">>), goal |-> PyNone, code |-> c] : c \in Codes}
    \cup {[step_type |-> "Execute", name |-> PyStr(<<"2">>), goal |-> PyStr(<<"a">>), code |-> PyNone]}

\* ------------------------------------------------------- Workflow
Workflow(name, description, steps) ==
    [name |-> name, description |-> description, steps |-> steps]

\* list.pop(i): a negative i counts from the end, an i outside the list raises.
PyPop(xs, i) ==
    LET n == Len(xs)
        j == IF i < 0 THEN i + n ELSE i
    IN  IF j < 0 \/ j >= n THEN Raised("IndexError")
        ELSE [raised |-> FALSE, value |-> xs[j + 1],
              rest |-> SubSeq(xs, 1, j) \o SubSeq(xs, j + 2, n)]

\* list.insert(i, x): a negative i counts from the end, i is clamped to the list.
PyInsert(xs, i, x) ==
    LET n == Len(xs)
        j0 == IF i < 0 THEN i + n ELSE i
        j == IF j0 < 0 THEN 0 ELSE IF j0 > n THEN n ELSE j0
    IN  SubSeq(xs, 1, j) \o <<x>> \o SubSeq(xs, j + 1, n)

\* Workflow.add_step: [raised, steps].
add_step(steps, step) ==
    IF ~validate(step) THEN [raised |-> TRUE, error |-> "ValueError", steps |-> steps]
    ELSE [raised |-> FALSE, value |-> PyNone, steps |-> Append(steps, step)]

\* remove_step testing only the upper bound of the index.
remove_step_negative_allowed(steps, i) ==
    IF ~(i < Len(steps)) THEN [raised |-> TRUE, error |-> "IndexError", steps |-> steps]
    ELSE LET popped == PyPop(steps, i)
         IN  IF popped.raised THEN [raised |-> TRUE, error |-> "IndexError", steps |-> steps]
             ELSE [raised |-> FALSE, value |-> popped.value, steps |-> popped.rest]

\* Workflow.remove_step.
remove_step(steps, i) ==
    IF ~(0 <= i /\ i < Len(steps)) THEN [raised |-> TRUE, error |-> "IndexError", steps |-> steps]
    ELSE LET popped == PyPop(steps, i)
         IN  [raised |-> FALSE, value |-> popped.value, steps |-> popped.rest]

\* move_step inserting before the step was popped.
move_step_insert_first(steps, old_index, new_index) ==
    IF ~(0 <= old_index /\ old_index < Len(steps)) THEN [raised |-> TRUE, error |-> "IndexError", steps |-> steps]
    ELSE IF ~(0 <= new_index /\ new_index < Len(steps)) THEN [raised |-> TRUE, error |-> "IndexError", steps |-> steps]
    ELSE IF old_index = new_index THEN [raised |-> FALSE, value |-> PyNone, steps |-> steps]
    ELSE LET inserted == PyInsert(steps, new_index, steps[old_index + 1])
             popped == PyPop(inserted, old_index)
         IN  [raised |-> FALSE, value |-> PyNone, steps |-> popped.rest]

\* Workflow.move_step.
move_step(steps, old_index, new_index) ==
    IF ~(0 <= old_index /\ old_index < Len(steps)) THEN [raised |-> TRUE, error |-> "IndexError", steps |-> steps]
    ELSE IF ~(0 <= new_index /\ new_index < Len(steps)) THEN [raised |-> TRUE, error |-> "IndexError", steps |-> steps]
    ELSE IF old_index = new_index THEN [raised |-> FALSE, value |-> PyNone, steps |-> steps]
    ELSE LET popped == PyPop(steps, old_index)
         IN  [raised |-> FALSE, value |-> PyNone,
              steps |-> PyInsert(popped.rest, new_index, popped.value)]

\* Workflow.to_dict followed by json.dumps.
Workflow_to_json(w) ==
    [name |-> JString(w.name.v), description |-> JString(w.description.v),
     steps |-> [i \in 1..Len(w.steps) |-> WorkflowStep_to_json(w.steps[i])]]

\* json.loads followed by Workflow.from_dict; a step that fails to
\* construct fails the whole call.
Workflow_from_dict(data) ==
    LET steps_data == DictGet(data, "steps", <<>>)
        built == [i \in 1..Len(steps_data) |-> WorkflowStep_from_dict(steps_data[i])]
    IN  IF \E i \in 1..Len(built) : built[i].raised THEN Raised("ValueError")
        ELSE Returned(Workflow(json_loads(DictGet(data, "name", JString(<<"u", "n", "n", "a", "m", "e", "d">>))),
                               json_loads(DictGet(data, "description", JString(<<>>))),
                               [i \in 1..Len(built) |-> built[i].value]))

NoWorkflowCall == [op |-> "none"]

AddStep(step) ==
    /\ Len(workflow.steps) < MaxSteps
    /\ LET r == add_step(workflow.steps, step)
       IN  /\ workflow' = [workflow EXCEPT !.steps = r.steps]
           /\ wout' = [op |-> "add_step", raised |-> r.raised, before |-> workflow.steps, step |-> step]
    /\ UNCHANGED <<files, kept>>
    /\ UNCHANGED <<hvars, kvars>> /\ RunFrame /\ StoreFrame

\* step = WorkflowStep(step_type=..., name=..., goal=..., code=...) followed by
\* workflow.add_step(step); a construction that raises adds nothing.
NewStep(args) ==
    /\ Len(workflow.steps) < MaxSteps
    /\ LET made == WorkflowStep(args.step_type, args.name, PyStr(<<>>), args.goal, PyNone, args.code)
           r == IF made.raised THEN [raised |-> TRUE, steps |-> workflow.steps]
                ELSE add_step(workflow.steps, made.value)
       IN  /\ workflow' = [workflow EXCEPT !.steps = r.steps]
           /\ wout' = [op |-> "WorkflowStep", raised |-> made.raised, before |-> workflow.steps, args |-> args]
    /\ UNCHANGED <<files, kept>>
    /\ UNCHANGED <<hvars, kvars>> /\ RunFrame /\ StoreFrame

RemoveStep(i) ==
    /\ LET r == remove_step(workflow.steps, i)
       IN  /\ workflow' = [workflow EXCEPT !.steps = r.steps]
           /\ wout' = [op |-> "remove_step", raised |-> r.raised, before |-> workflow.steps,
                       a |-> i, b |-> i, value |-> IF r.raised THEN PyNone ELSE r.value]
    /\ UNCHANGED <<files, kept>>
    /\ UNCHANGED <<hvars, kvars>> /\ RunFrame /\ StoreFrame

MoveStep(old_index, new_index) ==
    /\ LET r == move_step(workflow.steps, old_index, new_index)
       IN  /\ workflow' = [workflow EXCEPT !.steps = r.steps]
           /\ wout' = [op |-> "move_step", raised |-> r.raised, before |-> workflow.steps,
                       a |-> old_index, b |-> new_index, value |-> PyNone]
    /\ UNCHANGED <<files, kept>>
    /\ UNCHANGED <<hvars, kvars>> /\ RunFrame /\ StoreFrame

WorkflowNext ==
    \/ \E step \in Steps \cup {StepEmptied, StepGoalRemoved} : AddStep(step)
    \/ \E args \in NewStepArgs : NewStep(args)
    \/ \E i \in Indices : RemoveStep(i)
    \/ \E a \in Indices : \E b \in Indices : MoveStep(a, b)

\* ------------------------------------------------------- WorkflowRepository
\* The characters _slugify keeps: [A-Za-z0-9_-].
SlugChars == {"a", "b", "d", "A", "B", "D", "1", "2", "_", "-"}

\* re.sub(r"[^A-Za-z0-9_-]+", "-", cs): every maximal run of other
\* characters becomes one "-"; inRun says the previous character was one.
RECURSIVE re_sub(_, _)
re_sub(cs, inRun) ==
    IF cs = <<>> THEN <<>>
    ELSE IF Head(cs) \in SlugChars THEN <<Head(cs)>> \o re_sub(Tail(cs), FALSE)
    ELSE (IF inRun THEN <<>> ELSE <<"-">>) \o re_sub(Tail(cs), TRUE)

\* storage.py _slugify.
slugify(name) ==
    LET slug == strip(re_sub(strip(name, Whitespace), FALSE), {"-"})
    IN  lower(IF slug = <<>> THEN <<"w", "o", "r", "k", "f", "l", "o", "w">> ELSE slug)

\* WorkflowRepository._path_for: the stem of directory / f"{slug}.json".
path_for(name) == slugify(name.v)

\* The empty directory.
NoFiles == [stem \in {} |-> JNull]

\* path.write_text(text): the file is created or overwritten.
write_text(dir, stem, text) ==
    [s \in DOMAIN dir \cup {stem} |-> IF s = stem THEN text ELSE dir[s]]

\* path.unlink().
unlink(dir, stem) == [s \in DOMAIN dir \ {stem} |-> dir[s]]

\* The order of str values: by code point, a proper prefix first.
CodePoint(c) ==
    CASE c = " " -> 32 [] c = "!" -> 33 [] c = "-" -> 45 [] c = "1" -> 49 [] c = "2" -> 50
      [] c = "A" -> 65 [] c = "B" -> 66 [] c = "D" -> 68 [] c = "_" -> 95
      [] c = "a" -> 97 [] c = "b" -> 98 [] c = "d" -> 100 [] OTHER -> 127

RECURSIVE StrLess(_, _)
StrLess(x, y) ==
    IF y = <<>> THEN FALSE
    ELSE IF x = <<>> THEN TRUE
    ELSE IF Head(x) # Head(y) THEN CodePoint(Head(x)) < CodePoint(Head(y))
    ELSE StrLess(Tail(x), Tail(y))

\* sorted(xs) of a set of distinct str values.
RECURSIVE sorted(_)
sorted(xs) ==
    IF xs = {} THEN <<>>
    ELSE LET least == CHOOSE x \in xs : \A y \in xs \ {x} : StrLess(x, y)
         IN  <<least>> \o sorted(xs \ {least})

\* WorkflowRepository.load_from_path.
load_from_path(dir, stem) == Workflow_from_dict(dir[stem])

\* WorkflowRepository.list_names: the names inside the files, sorted.
list_names(dir) ==
    IF \E stem \in DOMAIN dir : load_from_path(dir, stem).raised THEN Raised("ValueError")
    ELSE Returned(sorted({load_from_path(dir, stem).value.name.v : stem \in DOMAIN dir}))

\* WorkflowRepository.load.
repo_load(dir, name) ==
    IF path_for(name) \notin DOMAIN dir THEN Raised("FileNotFoundError")
    ELSE load_from_path(dir, path_for(name))

\* WorkflowRepository.save.
repo_save(dir, w) == write_text(dir, path_for(w.name), Workflow_to_json(w))

\* delete removing nothing.
repo_delete_keeps_file(dir, name) ==
    IF path_for(name) \notin DOMAIN dir THEN [raised |-> TRUE, error |-> "FileNotFoundError", dir |-> dir]
    ELSE [raised |-> FALSE, value |-> PyNone, dir |-> dir]

\* WorkflowRepository.delete.
repo_delete(dir, name) ==
    IF path_for(name) \notin DOMAIN dir THEN [raised |-> TRUE, error |-> "FileNotFoundError", dir |-> dir]
    ELSE [raised |-> FALSE, value |-> PyNone, dir |-> unlink(dir, path_for(name))]

\* The names callers use: two that differ in case only, one with
\* surrounding whitespace and punctuation, one of another workflow.
Names == {PyStr(<<"d">>), PyStr(<<"D">>), PyStr(<<" ", "d", "!">>), PyStr(<<"a", " ", "b">>)}
Descriptions == {PyStr(<<>>), PyStr(<<"t">>)}

\* The workflows callers save.
Drafts ==
    {Workflow(n, d, st) : n \in Names, d \in Descriptions, st \in {<<>>, <<Step1, Step3>>}}

RepoFrame ==
    /\ UNCHANGED workflow
    /\ UNCHANGED <<hvars, kvars>> /\ RunFrame /\ StoreFrame

RepoSave(w) ==
    /\ files' = repo_save(files, w)
    /\ kept' = write_text(kept, path_for(w.name), w)
    /\ wout' = [op |-> "save", name |-> w.name, raised |-> FALSE, value |-> w]
    /\ RepoFrame

RepoLoad(name) ==
    /\ LET r == repo_load(files, name)
       IN  wout' = [op |-> "load", name |-> name, raised |-> r.raised,
                    value |-> IF r.raised THEN PyNone ELSE r.value,
                    stored |-> path_for(name) \in DOMAIN kept]
    /\ UNCHANGED <<files, kept>>
    /\ RepoFrame

RepoDelete(name) ==
    /\ LET r == repo_delete(files, name)
       IN  /\ files' = r.dir
           /\ kept' = IF r.raised THEN kept ELSE unlink(kept, path_for(name))
           /\ wout' = [op |-> "delete", name |-> name, raised |-> r.raised,
                       stored |-> path_for(name) \in DOMAIN kept]
    /\ RepoFrame

RepoListNames ==
    /\ LET r == list_names(files)
       IN  wout' = [op |-> "list_names", name |-> PyNone, raised |-> r.raised,
                    value |-> IF r.raised THEN PyNone ELSE r.value]
    /\ UNCHANGED <<files, kept>>
    /\ RepoFrame

RepositoryNext ==
    \/ \E w \in Drafts : RepoSave(w)
    \/ \E name \in Names : RepoLoad(name)
    \/ \E name \in Names : RepoDelete(name)
    \/ RepoListNames

\* A Workflow just constructed and an empty repository directory.
WorkflowStart(w) ==
    /\ workflow = w
    /\ files = NoFiles
    /\ wout = NoWorkflowCall
    /\ kept = NoFiles

\* ======================================================= WorkflowRunner
\* ------------------------------------------------------- collaborators
\* What the language model behind a collaborator does in one call: it
\* answers with some content, or the call fails (generation or parsing
\* error with no fallback allowed, or any other exception).
PlanAnswers == {"plan A", "plan B", "error"}
FixAnswers == {"fix", "error"}

\* agent/planning.py ExecutionPlan, debugging/suggestions.py DebugSuggestion.
ExecutionPlan(content) == [title |-> content]
DebugSuggestion(content) == [summary |-> content]

\* PlanningAgent.draft_plan: an empty goal after strip() is a ValueError.
draft_plan(goal, context, answer) ==
    IF strip(goal.v, Whitespace) = <<>> THEN Raised("ValueError")
    ELSE IF answer = "error" THEN Raised("LLMGenerationError")
    ELSE Returned(ExecutionPlan(answer))

\* DebuggingAgent.suggest_fix.
suggest_fix(failing_code, error_name, error_value, traceback, answer) ==
    IF answer = "error" THEN Raised("LLMGenerationError")
    ELSE Returned(DebugSuggestion(answer))

\* ------------------------------------------------------- session.execute
\* KernelSession._consume_iopub over the events the stream delivers, in
\* order; when they run out before the request's idle status, the next
\* get_iopub_msg times out.
RECURSIVE KernelSession_drain(_, _, _)
KernelSession_drain(res, id, events) ==
    IF events = <<>> THEN Raised("KernelExecutionError")
    ELSE LET step == KernelSession_consume_iopub(res, id, Head(events))
         IN  IF step.break THEN Returned(step.result)
             ELSE KernelSession_drain(step.result, id, Tail(events))

\* KernelSession.execute run to its end: rep is what the reply channel
\* delivers for the request (a reply, or a failed read), events what the
\* stream delivers. Gives the session after the call and how it ended.
KernelSession_execute(s, launch, id, rep, events) ==
    LET st == KernelSession_execute_start(s, launch)
        res == [ExecutionResult EXCEPT !.execution_count = rep.execution_count]
        drained == KernelSession_drain(res, id, events)
    IN  IF st.raised \/ st.s.client = "None" THEN [s |-> st.s, sent |-> FALSE, end |-> Raised("KernelExecutionError")]
        ELSE IF rep.msg_type = "timeout" \/ drained.raised
        THEN [s |-> st.s, sent |-> TRUE, end |-> Raised("KernelExecutionError")]
        ELSE [s |-> st.s, sent |-> TRUE, end |-> Returned(KernelSession_merge_reply(drained.value, rep))]

\* What the backend delivers for request p: on the reply channel,
Replies(p) ==
    {m \in ShellMsgs(p) : m.execution_count = PyInt(1)} \cup {ReadFailed("shell")}

\* and on the stream: output and the idle status, an error event and the
\* idle status, or output and then silence.
Scripts(p) ==
    LET idle == [parent |-> p, msg_type |-> "status", execution_state |-> "idle"]
        stdout == [parent |-> p, msg_type |-> "stream", name |-> "stdout", text |-> "a"]
        error == [parent |-> p, msg_type |-> "error",
                  content |-> [ename |-> PyStr("ZeroDivisionError"), evalue |-> PyStr("division by zero"), traceback |-> PyList(<<"Traceback">>)]]
    IN  {<<stdout, idle>>, <<error, idle>>, <<stdout>>}

\* build_executed_cell with the error left out of the cell.
build_executed_cell_no_error(code, res) ==
    ExecutedCell(code, PyStr(res.stdout), PyStr(res.stderr), res.result,
                 PyNone, PyNone, PyList(<<>>), res.execution_count)

\* history.py build_executed_cell.
build_executed_cell(code, res) ==
    ExecutedCell(code, PyStr(res.stdout), PyStr(res.stderr), res.result,
                 IF res.error # PyNone THEN res.error.name ELSE PyNone,
                 IF res.error # PyNone THEN res.error.value ELSE PyNone,
                 IF res.error # PyNone THEN res.error.traceback ELSE PyList(<<>>),
                 res.execution_count)

\* ------------------------------------------------------- run()
\* An outcome with the plan stored as the execution and the other way round.
WorkflowStepOutcome_swapped(step, plan, execution, suggestion) ==
    [step |-> step, plan |-> execution, execution |-> plan, suggestion |-> suggestion]

\* runner.py WorkflowStepOutcome.
WorkflowStepOutcome(step, plan, execution, suggestion) ==
    [step |-> step, plan |-> plan, execution |-> execution, suggestion |-> suggestion]

WorkflowRunResult(outcomes, failed_step_index) ==
    [outcomes |-> outcomes, failed_step_index |-> failed_step_index]

\* WorkflowRunResult.success.
success(r) == r.failed_step_index = PyNone

\* One call made by run(), as the trace records it: the step it was made
\* for (-1 after the loop) and how it ended: "returned", "failed" (execute
\* returned a result that failed), or the name of the exception raised.
Called(name, i, end) == [call |-> name, index |-> i, end |-> end]

\* A call with the keyword arguments it was given.
CalledWith(name, i, end, args) == [call |-> name, index |-> i, end |-> end, args |-> args]

\* The call recorded raised.
RaisedIn(e) == e.end \notin {"returned", "failed"}

\* Leaving the block without closing what was entered.
ExitStack_exit_closes_nothing(s, entered, stop) == Ended(s, FALSE, FALSE, FALSE)

\* Leaving "with ExitStack() as stack": __exit__ of the session entered, if
\* any, calls shutdown(). Gives the session after it and whether it raised.
ExitStack_exit(s, entered, stop) ==
    IF entered = "None" THEN Ended(s, FALSE, FALSE, FALSE) ELSE KernelSession_shutdown(s, stop)

\* The calls the exit adds to the trace.
ExitCalls(entered, stop) ==
    IF entered = "None" THEN <<>> ELSE <<Called("shutdown", -1, IF stop = "raises" THEN "OSError" ELSE "returned")>>

\* The session fields and the request counter after a step of run().
RunSession(s, id) ==
    /\ SetSess(s)
    /\ msg_id' = id
    /\ UNCHANGED <<impl, pc, result, reply, reads, lastMsg, heard, ret, call>>

\* The step the for loop takes next.
CurrentStep == workflow.steps[index + 1]

\* The loop going on after a step failed.
InLoop_after_failure ==
    /\ rpc = "loop"
    /\ index < Len(workflow.steps)

\* The for loop has a step to take: break has not left it.
InLoop ==
    /\ rpc = "loop"
    /\ index < Len(workflow.steps)
    /\ run_result.failed_step_index = PyNone

\* A fix is asked for whatever suggest says.
WantsFix_ignores_suggest(execution) == ~succeeded(execution) /\ opts.debugging_agent

\* "if not execution.succeeded and suggest and self._debugging_agent".
WantsFix(execution) == ~succeeded(execution) /\ opts.suggest /\ opts.debugging_agent

\* The keyword arguments of suggest_fix for the code run and its result.
FixArgs(code, execution) ==
    [failing_code |-> code,
     error_name |-> IF execution.error # PyNone THEN execution.error.name ELSE PyStr("UnknownError"),
     error_value |-> IF execution.error # PyNone THEN execution.error.value ELSE PyStr(""),
     traceback |-> IF execution.error # PyNone THEN execution.error.traceback ELSE PyList(<<>>)]

\* The history is saved whenever a history file was given.
Saving_without_update == opts.history_file

\* "if history_updated and history_file is not None".
Saving == history_updated /\ opts.history_file

\* run(workflow, suggest=..., history_file=...) up to the for loop.
RunBegin(suggest, history_file) ==
    /\ rpc = "idle"
    /\ rpc' = "loop"
    /\ opts' = [opts EXCEPT !.suggest = suggest, !.history_file = history_file]
    /\ index' = 0
    /\ session' = "None"
    /\ run_result' = WorkflowRunResult(<<>>, PyNone)
    /\ history_updated' = FALSE
    /\ UNCHANGED trace
    /\ UNCHANGED <<hvars, kvars>> /\ WorkflowFrame /\ StoreFrame

\* One pass of the loop over a plan step; an exception of draft_plan leaves
\* the with block and run().
RunPlanStep(answer, stop) ==
    /\ InLoop
    /\ CurrentStep.step_type = "plan"
    /\ LET plan == draft_plan(TextOr(CurrentStep.goal, PyStr(<<>>)), CurrentStep.context, answer)
           exit == ExitStack_exit(Sess, session, stop)
       IN  IF plan.raised
           THEN /\ rpc' = "raised"
                /\ RunSession(exit.s, msg_id)
                /\ trace' = trace \o <<Called("draft_plan", index, plan.error)>> \o ExitCalls(session, stop)
                /\ UNCHANGED <<index, run_result>>
           ELSE /\ run_result' = [run_result EXCEPT !.outcomes =
                        Append(@, WorkflowStepOutcome(CurrentStep, plan.value, PyNone, PyNone))]
                /\ index' = index + 1
                /\ trace' = Append(trace, Called("draft_plan", index, "returned"))
                /\ UNCHANGED <<rpc, kvars>>
    /\ UNCHANGED <<opts, session, history_updated>>
    /\ UNCHANGED hvars /\ WorkflowFrame /\ StoreFrame

\* One pass of the loop over an execute step: the session is entered on
\* the first one, the code is executed, its cell is added to the history, a
\* fix is asked for when the result failed, and the outcome is recorded. An
\* exception of any of these calls leaves the with block and run().
RunExecuteStep(launch, rep, events, answer, stop) ==
    /\ InLoop
    /\ CurrentStep.step_type = "execute"
    /\ LET code == TextOr(CurrentStep.code, PyStr(<<>>))
           entered == IF session = "None" THEN KernelSession_start(Sess, launch)
                      ELSE Ended(Sess, FALSE, FALSE, FALSE)
           enterCalls == IF session = "None"
                         THEN <<Called("KernelSession", index, "returned"),
                                Called("enter_context", index, IF entered.raised THEN "KernelExecutionError" ELSE "returned")>>
                         ELSE <<>>
           ex == KernelSession_execute(entered.s, launch, msg_id + 1, rep, events)
           execution == ex.end.value
           cell == build_executed_cell(code, execution)
           wantsFix == WantsFix(execution)
           args == FixArgs(code, execution)
           fix == suggest_fix(args.failing_code, args.error_name, args.error_value, args.traceback, answer)
           exit == ExitStack_exit(ex.s, "KernelSession", stop)
           executed == enterCalls \o <<Called("execute", index, IF succeeded(execution) THEN "returned" ELSE "failed"), Called("history.add", index, "returned")>>
       IN  IF entered.raised
           THEN /\ rpc' = "raised"
                /\ session' = "None"
                /\ RunSession(entered.s, msg_id)
                /\ trace' = trace \o enterCalls
                /\ UNCHANGED <<index, run_result, history_updated, hvars>>
           ELSE IF ex.end.raised
           THEN /\ rpc' = "raised"
                /\ session' = "KernelSession"
                /\ RunSession(exit.s, IF ex.sent THEN msg_id + 1 ELSE msg_id)
                /\ trace' = trace \o enterCalls \o <<Called("execute", index, ex.end.error)>>
                                  \o ExitCalls("KernelSession", stop)
                /\ UNCHANGED <<index, run_result, history_updated, hvars>>
           ELSE /\ session' = "KernelSession"
                /\ entries' = add(entries, limit, cell)
                /\ added' = Append(added, cell)
                /\ history_updated' = TRUE
                /\ UNCHANGED <<limit, file, out, saved>>
                /\ IF wantsFix /\ fix.raised
                   THEN /\ rpc' = "raised"
                        /\ RunSession(exit.s, msg_id + 1)
                        /\ trace' = trace \o executed \o <<CalledWith("suggest_fix", index, fix.error, args)>>
                                          \o ExitCalls("KernelSession", stop)
                        /\ UNCHANGED <<index, run_result>>
                   ELSE /\ run_result' =
                              WorkflowRunResult(
                                  Append(run_result.outcomes,
                                         WorkflowStepOutcome(CurrentStep, PyNone, execution,
                                                             IF wantsFix THEN fix.value ELSE PyNone)),
                                  IF succeeded(execution) THEN PyNone ELSE PyInt(index))
                        /\ index' = IF succeeded(execution) THEN index + 1 ELSE index
                        /\ RunSession(ex.s, msg_id + 1)
                        /\ trace' = trace \o executed
                                          \o (IF wantsFix THEN <<CalledWith("suggest_fix", index, "returned", args)>> ELSE <<>>)
                        /\ UNCHANGED rpc
    /\ UNCHANGED opts
    /\ WorkflowFrame /\ StoreFrame

\* After the loop: the history is saved once if a cell was added and a
\* history file was given, the with block is left, and run() returns.
RunFinish(save, stop) ==
    /\ rpc = "loop"
    /\ ~InLoop
    /\ LET saving == Saving
           exit == ExitStack_exit(Sess, session, stop)
       IN  /\ IF saving /\ save = "ok"
              THEN file' = [exists |-> TRUE, text |-> to_json(entries)] /\ saved' = entries
              ELSE UNCHANGED <<file, saved>>
           /\ rpc' = IF (saving /\ save = "raises") \/ exit.raised THEN "raised" ELSE "returned"
           /\ RunSession(exit.s, msg_id)
           /\ trace' = trace \o (IF saving THEN <<Called("history.save", -1, IF save = "raises" THEN "OSError" ELSE "returned")>> ELSE <<>>)
                             \o ExitCalls(session, stop)
    /\ UNCHANGED <<limit, entries, out, added>>
    /\ UNCHANGED <<opts, index, session, run_result, history_updated>>
    /\ WorkflowFrame /\ StoreFrame

\* WorkflowRunner(planning_agent=..., debugging_agent=..., history=...):
\* debugging says whether a debugging agent was supplied; suggest and
\* history_file hold the defaults of run().
WorkflowRunnerStart(debugging) ==
    /\ opts = [debugging_agent |-> debugging, suggest |-> TRUE, history_file |-> FALSE]
    /\ rpc = "idle"
    /\ index = 0
    /\ session = "None"
    /\ run_result = WorkflowRunResult(<<>>, PyNone)
    /\ history_updated = FALSE
    /\ trace = <<>>

\* The steps of the workflows run: a plan, a plan whose goal is blank, and
\* two executes with different code.
StepBlankGoal ==
    WorkflowStep("plan", PyNone, PyStr(<<>>), PyStr(<<" ">>), PyNone, PyNone).value
RunSteps == {Step1, StepBlankGoal, Step2, Step3}
RunWorkflows ==
    {Workflow(PyStr(<<"d">>), PyStr(<<>>), st) :
        st \in UNION {[1..n -> RunSteps] : n \in 0..MaxSteps}}

RunNext ==
    \/ \E suggest \in BOOLEAN : \E history_file \in BOOLEAN : RunBegin(suggest, history_file)
    \/ \E answer \in PlanAnswers : \E stop \in Stops : RunPlanStep(answer, stop)
    \/ \E launch \in SessionLaunches : \E rep \in Replies(msg_id + 1) : \E events \in Scripts(msg_id + 1) :
          \E answer \in FixAnswers : \E stop \in Stops : RunExecuteStep(launch, rep, events, answer, stop)
    \/ \E save \in {"ok", "raises"} : \E stop \in Stops : RunFinish(save, stop)

\* ========================================================= SessionStore
MaxClock == 1       \* datetime.now() ranges over the seconds 0..MaxClock
MaxSessions == 2    \* session directories under run_root
MaxEvents == 2      \* append_event calls between two start_session calls

\* A session directory: run_root / timestamp, or run_root / f"{timestamp}-{suffix}"
\* for suffix >= 2 (suffix 1 stands for the plain timestamp).
SessionDir(timestamp, suffix) == [timestamp |-> timestamp, suffix |-> suffix]

\* The while loop of start_session: the first directory name not taken.
RECURSIVE free_dir(_, _, _)
free_dir(root, timestamp, suffix) ==
    IF SessionDir(timestamp, suffix) \in DOMAIN root
    THEN free_dir(root, timestamp, suffix + 1)
    ELSE SessionDir(timestamp, suffix)

\* session_dir.mkdir(exist_ok=False) and events_file.touch(): the new
\* directory holds an empty events.jsonl and no session.json.
mkdir_touch(root, dir) ==
    [d \in DOMAIN root \cup {dir} |->
        IF d = dir THEN [events |-> <<>>, session_json |-> PyNone] ELSE root[d]]

\* The record append_event writes as one line of events.jsonl.
EventRecord(now, event_type) == [timestamp |-> now, type |-> event_type]

\* The metadata finish_session writes to session.json.
Metadata(started_at, now, count) ==
    [status |-> "completed", started_at |-> started_at, finished_at |-> now,
     event_count |-> count]

\* The fields of the store.
Store ==
    [session_dir |-> session_dir, start_time |-> start_time, event_count |-> event_count]

\* start_session resetting the count of a session that is already open.
start_session_resets(st, root, now) ==
    IF st.session_dir # PyNone
    THEN [store |-> [st EXCEPT !.event_count = 0], root |-> root, value |-> st.session_dir]
    ELSE LET dir == free_dir(root, now, 1)
         IN  [store |-> [session_dir |-> dir, start_time |-> PyInt(now), event_count |-> 0],
              root |-> mkdir_touch(root, dir), value |-> dir]

\* SessionStore.start_session; _events_file is session_dir / "events.jsonl".
start_session(st, root, now) ==
    IF st.session_dir # PyNone THEN [store |-> st, root |-> root, value |-> st.session_dir]
    ELSE LET dir == free_dir(root, now, 1)
         IN  [store |-> [session_dir |-> dir, start_time |-> PyInt(now), event_count |-> 0],
              root |-> mkdir_touch(root, dir), value |-> dir]

\* SessionStore.append_event.
append_event(st, root, now, event_type) ==
    IF st.session_dir = PyNone THEN [store |-> st, root |-> root]
    ELSE [store |-> [st EXCEPT !.event_count = @ + 1],
          root |-> [root EXCEPT ![st.session_dir].events = Append(@, EventRecord(now, event_type))]]

\* SessionStore.finish_session.
finish_session(st, root, now) ==
    [store |-> [session_dir |-> PyNone, start_time |-> PyNone, event_count |-> 0],
     root |-> IF st.session_dir = PyNone THEN root
              ELSE [root EXCEPT ![st.session_dir].session_json =
                        Metadata(st.start_time, now, st.event_count)]]

SetStore(st) ==
    /\ session_dir' = st.session_dir
    /\ start_time' = st.start_time
    /\ event_count' = st.event_count

OutsideStore == UNCHANGED <<hvars, kvars>> /\ WorkflowFrame /\ RunFrame

NoStoreCall == [op |-> "none"]

StartSession ==
    /\ session_dir = PyNone => Cardinality(DOMAIN run_root) < MaxSessions
    /\ LET r == start_session(Store, run_root, clock)
       IN  /\ SetStore(r.store)
           /\ run_root' = r.root
           /\ sout' = [op |-> "start_session", open |-> session_dir # PyNone, value |-> r.value]
    /\ appends' = IF session_dir = PyNone THEN 0 ELSE appends
    /\ UNCHANGED clock
    /\ OutsideStore

AppendEvent(event_type) ==
    /\ appends < MaxEvents
    /\ LET r == append_event(Store, run_root, clock, event_type)
       IN  /\ SetStore(r.store)
           /\ run_root' = r.root
    /\ sout' = [op |-> "append_event", open |-> session_dir # PyNone, value |-> PyNone]
    /\ appends' = appends + 1
    /\ UNCHANGED clock
    /\ OutsideStore

FinishSession ==
    /\ LET r == finish_session(Store, run_root, clock)
       IN  /\ SetStore(r.store)
           /\ run_root' = r.root
    /\ sout' = [op |-> "finish_session", open |-> session_dir # PyNone, value |-> session_dir,
                appends |-> appends]
    /\ UNCHANGED <<appends, clock>>
    /\ OutsideStore

\* A second passes.
Tick ==
    /\ clock < MaxClock
    /\ clock' = clock + 1
    /\ UNCHANGED <<session_dir, start_time, event_count, run_root, sout, appends>>
    /\ OutsideStore

\* SessionStore(run_root): an empty run_root, no open session.
StoreStart ==
    /\ session_dir = PyNone
    /\ start_time = PyNone
    /\ event_count = 0
    /\ run_root = [d \in {} |-> PyNone]
    /\ clock = 0
    /\ sout = NoStoreCall
    /\ appends = 0

StoreNext ==
    \/ StartSession
    \/ \E event_type \in {"user"} : AppendEvent(event_type)
    \/ FinishSession
    \/ Tick

\* ======================================================= specifications
\* Each specification runs one component; the other stays as constructed.
\* The components a specification does not run, as constructed.
NoWorkflow == Workflow(PyStr(<<"d">>), PyStr(<<>>), <<>>)

HistoryInitial ==
    /\ \E lim \in 1..MaxLimit : HistoryStart(lim)
    /\ KernelStart("KernelSession")
    /\ WorkflowStart(NoWorkflow) /\ WorkflowRunnerStart(TRUE) /\ StoreStart

SpecHistory == HistoryInitial /\ [][HistoryNext]_vars

KernelInitial ==
    /\ \E cls \in {"KernelSession", "KernelRunner"} : KernelStart(cls)
    /\ HistoryStart(1)
    /\ WorkflowStart(NoWorkflow) /\ WorkflowRunnerStart(TRUE) /\ StoreStart

SpecKernel == KernelInitial /\ [][KernelNext]_vars

\* The events that matter to the end of a call: the status events, one
\* output chunk and one error event, of each request.
LiveIopubMsgs(p) ==
    {m \in IopubMsgs(p) :
        \/ m.msg_type = "status"
        \/ m.msg_type = "stream" /\ m.name = "stdout" /\ m.text = "a"
        \/ m.msg_type = "error" /\ m.content.ename # PyNone}

KernelLiveNext ==
    \/ \E launch \in SessionLaunches : SessionStart(launch)
    \/ \E stop \in Stops : SessionShutdown(stop)
    \/ \E launch \in SessionLaunches : SessionExecute(launch)
    \/ \E p \in Known : \E m \in ShellMsgs(p) : SessionGetShellMsg(m)
    \/ SessionShellTimeout
    \/ \E p \in Known : \E m \in LiveIopubMsgs(p) : SessionGetIopubMsg(m)
    \/ SessionIopubTimeout
    \/ \E launch \in RunnerLaunches : RunnerStart(launch)
    \/ \E stop \in Stops : RunnerShutdown(stop)
    \/ \E stop \in Stops : \E launch \in RunnerLaunches : RunnerRestart(stop, launch)
    \/ \E launch \in RunnerLaunches : RunnerExecute(launch)
    \/ \E p \in Known : \E m \in LiveIopubMsgs(p) : RunnerGetIopubMsg(m)
    \/ RunnerIopubTimeout
    \/ \E p \in Known : \E m \in ShellMsgs(p) : RunnerDrainShell(m)
    \/ RunnerDrainTimeout

\* The same sessions on a backend that delivers: a call blocked on the reply
\* or on the idle status of its request gets it unless the read fails
\* first; the one read that drains the reply channel ends, with a message
\* or at its timeout; and a read on channels no message can come from
\* (backend down, channels stopped) ends at its timeout.
KernelFairness ==
    /\ WF_vars(~Connected /\ (SessionShellTimeout \/ SessionIopubTimeout \/ RunnerIopubTimeout))
    /\ WF_vars(\E m \in ShellMsgs(msg_id) : SessionGetShellMsg(m))
    /\ WF_vars(\E m \in LiveIopubMsgs(msg_id) : MatchingIdle(m) /\ SessionGetIopubMsg(m))
    /\ WF_vars(\E m \in LiveIopubMsgs(msg_id) : MatchingIdle(m) /\ RunnerGetIopubMsg(m))
    /\ WF_vars(RunnerDrainTimeout \/ \E m \in ShellMsgs(msg_id) : RunnerDrainShell(m))

SpecKernelLive == KernelInitial /\ [][KernelLiveNext]_vars /\ KernelFairness

\* A workflow with any steps, edited in place.
WorkflowInitial ==
    /\ \E w \in {Workflow(PyStr(<<"d">>), PyStr(<<>>), st) :
                    st \in UNION {[1..n -> Steps] : n \in 0..MaxSteps}} : WorkflowStart(w)
    /\ HistoryStart(1) /\ KernelStart("KernelSession") /\ WorkflowRunnerStart(TRUE) /\ StoreStart

SpecWorkflow == WorkflowInitial /\ [][WorkflowNext]_vars

\* An empty repository.
RepositoryInitial ==
    /\ WorkflowStart(NoWorkflow)
    /\ HistoryStart(1) /\ KernelStart("KernelSession") /\ WorkflowRunnerStart(TRUE) /\ StoreStart

SpecRepository == RepositoryInitial /\ [][RepositoryNext]_vars

\* One run() of a runner over a workflow, on an empty history.
RunInitial ==
    /\ \E w \in RunWorkflows : WorkflowStart(w)
    /\ \E debugging \in BOOLEAN : WorkflowRunnerStart(debugging)
    /\ \E lim \in 1..MaxLimit : HistoryStart(lim)
    /\ KernelStart("KernelSession") /\ StoreStart

SpecRun == RunInitial /\ [][RunNext]_vars

\* A store on an empty run_root.
StoreInitial ==
    /\ StoreStart
    /\ WorkflowStart(NoWorkflow)
    /\ HistoryStart(1) /\ KernelStart("KernelSession") /\ WorkflowRunnerStart(TRUE)

SpecStore == StoreInitial /\ [][StoreNext]_vars

\* ------------------------------------------------- claims on the history
Min(a, b) == IF a < b THEN a ELSE b

\* The last n items of xs (n <= Len(xs)), in order.
LastN(xs, n) == [i \in 1..n |-> xs[Len(xs) - n + i]]

\* C1: after every add the history holds at most limit entries, and they are
\* exactly the last min(k, limit) cells added so far, in arrival order (so
\* the cell evicted is the oldest one).
C1_BoundedFifo ==
    /\ Len(entries) <= limit
    /\ entries = LastN(added, Min(Len(added), limit))

C1_Witness ==
    /\ out.op = "add"
    /\ Len(added) > limit
    /\ added[1] # added[Len(added)]

\* C2: h.save(path) followed by ExecutionHistory.load(path, limit=L), L the
\* limit of h, gives a history whose recent() has the same length and order
\* as h.recent(), every field of every cell equal.
C2_SaveLoadRoundTrip ==
    (out.op = "load" /\ out.limit = limit /\ file.exists /\ saved = entries) =>
        LET got == out.recent
            want == recent(entries, PyNone)
        IN  /\ Len(got) = Len(want)
            /\ \A i \in 1..Len(want) : \A k \in CellKeys : got[i][k] = want[i][k]

C2_Witness ==
    /\ out.op = "load" /\ out.limit = limit /\ file.exists /\ saved = entries
    /\ Len(entries) = 2
    /\ entries[1] = CellErr /\ entries[2] = CellOk

\* C3: load(path, limit=M) on a file holding n cells returns exactly the
\* last min(M, n) stored cells in their stored order.
C3_LoadKeepsNewest ==
    (out.op = "load" /\ file.exists) =>
        out.value = LastN(saved, Min(out.limit, Len(saved)))

C3_Witness ==
    /\ out.op = "load" /\ file.exists
    /\ Len(saved) > out.limit
    /\ saved[1] # saved[Len(saved)]

\* C4: recent(n) for n >= 0 returns exactly the last min(n, len(entries))
\* entries in order (recent(0) none), recent() returns all entries, and the
\* history's entries are unchanged by the call.
C4_RecentLastN ==
    out.op = "recent" =>
        /\ entries = out.before
        /\ out.count = PyNone => out.value = out.before
        /\ out.count # PyNone =>
               out.value = LastN(out.before, Min(out.count.v, Len(out.before)))

\* ------------------------------------------------- claims on the sessions
\* A read of the broadcast stream has just returned an event (this step).
IopubRead == pc = "iopub" /\ reads' = reads + 1

\* A channel read has just timed out or failed (this step).
ReadTimedOut == pc # "idle" /\ lastMsg'.msg_type = "timeout"

\* C5: while execute() for request A drains the stream, an event of another
\* request B changes no field of A's result and does not end the drain loop
\* (not even B's idle status), and the reply merged is A's own.
C5_OnlyOwnEvents ==
    /\ [](pc \in {"iopub", "drain"} /\ impl = "KernelSession" => reply.parent = msg_id)
    /\ [][(IopubRead /\ lastMsg'.parent # msg_id) =>
            (result' = result /\ pc' = "iopub" /\ ret' = ret)]_vars

C5_Witness ==
    /\ pc = "iopub"
    /\ lastMsg.parent \notin {msg_id, -1}
    /\ lastMsg.msg_type = "status" /\ lastMsg.execution_state = "idle"
    /\ result.stdout # ""

\* C6: start() on a Running session launches nothing and leaves it Running,
\* shutdown() on a session that is not Running does nothing and raises
\* nothing, and in every Running period the backend is started at most once
\* and shut down at most once.
C6_LifecycleIdempotent ==
    /\ starts <= 1
    /\ shutdowns <= 1
    /\ (call.op = "start" /\ call.wasRunning) =>
          (~call.launched /\ ~ret.raised /\ Running(Sess))
    /\ (call.op = "shutdown" /\ ~call.wasRunning) =>
          (~call.shut /\ ~ret.raised /\ ~Running(Sess))

\* C7: execute() on a session that is not Running starts the backend first
\* and sends the request only then, through the started client; when it
\* returns, the session is Running.
C7_LazyStart ==
    (call.op = "execute" /\ ~call.wasRunning) =>
        /\ call.sent =>
              (call.launched /\ call.clientAtSend = "started" /\ call.kernelAtSend = "up")
        /\ (pc = "idle" /\ ~ret.raised) =>
              (Running(Sess) /\ client = "started" /\ kernel = "up")

C7_Witness ==
    /\ call.op = "execute" /\ ~call.wasRunning /\ call.sent
    /\ msg_id = 2
    /\ pc = "idle" /\ ~ret.raised

\* C8 as claimed: after any restart() the previous backend has been shut
\* down and the session is Running on a newly started backend.
C8_RestartAlwaysRunning ==
    call.op = "restart" =>
        /\ call.wasRunning => call.shut
        /\ Running(Sess) /\ kernel = "up" /\ call.launched

\* C8 amended: restart() shuts the previous backend down, if there is one;
\* when it returns the session is Running on a newly started backend, and
\* when it raises (stop_channels or the start failed) the session is left
\* not Running, with no backend.
C8_RestartWhenItReturns ==
    call.op = "restart" =>
        /\ call.wasRunning => call.shut
        /\ ~ret.raised =>
              (Running(Sess) /\ client = "started" /\ kernel = "up" /\ call.launched /\ starts = 1)
        /\ ret.raised => (~Running(Sess) /\ kernel = "down" /\ ~call.launched)

C8_Witness ==
    /\ call.op = "restart" /\ call.wasRunning
    /\ ~ret.raised /\ call.shut /\ call.launched

\* C9: when the submitted code raised (an error reply and/or an error event
\* of the request), KernelSession.execute returns a result with error set
\* and succeeded false; the request's idle status always ends execute() with
\* a result, never an exception, and leaves the session Running; succeeded
\* holds exactly when error is absent.
C9_RuntimeErrorIsAResult ==
    /\ [](impl = "KernelSession" /\ pc = "idle" /\ ret.op = "execute" /\ ~ret.raised =>
            /\ (reply.status = "error" \/ heard.error) =>
                  (ret.value.error # PyNone /\ ~succeeded(ret.value))
            /\ succeeded(ret.value) <=> ret.value.error = PyNone
            /\ is_running /\ client # "None")
    /\ [][(impl = "KernelSession" /\ IopubRead /\ lastMsg'.parent = msg_id
           /\ lastMsg'.msg_type = "status" /\ lastMsg'.execution_state = "idle") =>
            (pc' = "idle" /\ ~ret'.raised /\ ret'.value # NoResult /\ is_running')]_vars

C9_Witness ==
    /\ impl = "KernelSession" /\ pc = "idle" /\ ret.op = "execute" /\ ~ret.raised
    /\ reply.status = "error" /\ ~heard.error
    /\ ret.value.error # PyNone
    /\ ret.value.stdout # ""
    /\ msg_id = 2

RunEnded == rpc \in {"returned", "raised"}

\* The positions of the trace whose call is one of names.
CallsOf(names) == {e \in 1..Len(trace) : trace[e].call \in names}

\* Every outcome recorded so far is the outcome of the step at its position.
OutcomesArePrefix ==
    /\ Len(run_result.outcomes) <= Len(workflow.steps)
    /\ \A k \in 1..Len(run_result.outcomes) : run_result.outcomes[k].step = workflow.steps[k]

\* C11: run() stops at the first Execute step whose result failed: once
\* execute has returned a failed result for step i, no later step is sent to
\* the session or to the planning collaborator, and the result returned has
\* failed_step_index = i and i + 1 outcomes, those of steps 0..i, whatever
\* suggest is and whether or not a debugging collaborator was supplied.
C11_StopsAtFirstFailure ==
    \A e \in CallsOf({"execute"}) :
        trace[e].end = "failed" =>
            /\ \A f \in CallsOf({"execute", "draft_plan"}) : f <= e
            /\ \A f \in 1..Len(trace) : trace[f].index <= trace[e].index
            /\ rpc = "returned" =>
                  /\ run_result.failed_step_index = PyInt(trace[e].index)
                  /\ Len(run_result.outcomes) = trace[e].index + 1
                  /\ OutcomesArePrefix

C11_Witness ==
    /\ rpc = "returned"
    /\ run_result.failed_step_index = PyInt(1)
    /\ Len(workflow.steps) = 3
    /\ workflow.steps[3].step_type = "execute"
    /\ ~opts.suggest /\ ~opts.debugging_agent

\* C12: for every workflow made only of valid Plan steps, whatever content
\* the planning collaborator's model answers with, run() returns a result
\* with success true and one outcome per step.
C12_PlanOnlySucceeds ==
    (/\ RunEnded
     /\ \A k \in 1..Len(workflow.steps) :
            workflow.steps[k].step_type = "plan" /\ validate(workflow.steps[k])
     /\ \A e \in 1..Len(trace) : trace[e].end # "LLMGenerationError") =>
        /\ rpc = "returned"
        /\ success(run_result)
        /\ Len(run_result.outcomes) = Len(workflow.steps)

\* C13: one run() creates at most one session, on its first Execute step;
\* that session serves every later Execute step with one backend; a
\* workflow without Execute steps creates none; and when run() returns or
\* raises, whatever the exit path, the session entered has been shut down
\* and no backend is left up.
C13_OneSessionAlwaysReleased ==
    /\ Cardinality(CallsOf({"KernelSession"})) <= 1
    /\ starts <= 1
    /\ \A e \in CallsOf({"KernelSession"}) :
          /\ workflow.steps[trace[e].index + 1].step_type = "execute"
          /\ \A k \in 1..trace[e].index : workflow.steps[k].step_type = "plan"
    /\ \A e \in CallsOf({"execute"}) : \E c \in CallsOf({"KernelSession"}) : c < e
    /\ (\A k \in 1..Len(workflow.steps) : workflow.steps[k].step_type = "plan") =>
          (CallsOf({"KernelSession"}) = {} /\ session = "None" /\ kernel = "down")
    /\ RunEnded =>
          /\ kernel = "down" /\ client # "started"
          /\ session # "None" => Cardinality(CallsOf({"shutdown"})) = 1
          /\ session = "None" => starts = 0

C13_Witness ==
    /\ rpc = "raised"
    /\ msg_id = 2
    /\ \E e \in CallsOf({"suggest_fix"}) : RaisedIn(trace[e])
    /\ kernel = "down"

\* C14: when the debugging collaborator raises while producing a suggestion
\* for an Execute step whose result failed, run() still reports that step:
\* it returns a result whose failed_step_index is the step's index and
\* whose outcome for the step carries the failed ExecutionResult.
C14_SuggestionFaultNotMasking ==
    \A e \in CallsOf({"suggest_fix"}) :
        (RaisedIn(trace[e]) /\ RunEnded) =>
            /\ rpc = "returned"
            /\ run_result.failed_step_index = PyInt(trace[e].index)
            /\ Len(run_result.outcomes) = trace[e].index + 1
            /\ ~succeeded(run_result.outcomes[trace[e].index + 1].execution)

\* C15: when execute() for the Execute step at index i ends with a fatal
\* failure (the backend failed to start, a channel read timed out), run()
\* still returns a WorkflowRunResult, with failed_step_index = i and the
\* outcomes of the steps before i.
C15_FatalFailureIsRecorded ==
    \A e \in CallsOf({"enter_context", "execute"}) :
        (trace[e].end = "KernelExecutionError" /\ RunEnded) =>
            /\ rpc = "returned"
            /\ run_result.failed_step_index = PyInt(trace[e].index)
            /\ Len(run_result.outcomes) >= trace[e].index
            /\ OutcomesArePrefix

\* C19: every outcome of a result has exactly one of plan / execution set,
\* the one of its step's variant: plan for a Plan step, execution for an
\* Execute step.
C19_OutcomeMatchesVariant ==
    \A k \in 1..Len(run_result.outcomes) :
        LET o == run_result.outcomes[k]
        IN  /\ o.step = workflow.steps[k]
            /\ o.step.step_type = "plan" => (o.plan # PyNone /\ o.execution = PyNone)
            /\ o.step.step_type = "execute" => (o.execution # PyNone /\ o.plan = PyNone)

C19_Witness ==
    /\ rpc = "returned"
    /\ Len(run_result.outcomes) = 3
    /\ run_result.outcomes[1].plan # PyNone
    /\ run_result.outcomes[2].execution # PyNone
    /\ run_result.outcomes[3].plan # PyNone

\* ------------------------------------------------- claims on the workflows
\* i is an index of xs, counted from 0.
InRange(i, xs) == 0 <= i /\ i < Len(xs)

\* xs without the item at index i (counted from 0).
Without(xs, i) == [k \in 1..(Len(xs) - 1) |-> IF k <= i THEN xs[k] ELSE xs[k + 1]]

\* C16: remove_step(i) with i outside 0..len-1 and move_step(a, b) with a or
\* b outside 0..len-1, negative indices included, fail with an out-of-range
\* error and leave the steps as they were; move_step(a, a) with a in range
\* raises nothing and leaves the steps as they were.
C16_OutOfRangeRejected ==
    /\ (wout.op = "remove_step" /\ ~InRange(wout.a, wout.before)) =>
          (wout.raised /\ workflow.steps = wout.before)
    /\ (wout.op = "move_step" /\ (~InRange(wout.a, wout.before) \/ ~InRange(wout.b, wout.before))) =>
          (wout.raised /\ workflow.steps = wout.before)
    /\ (wout.op = "move_step" /\ InRange(wout.a, wout.before) /\ wout.a = wout.b) =>
          (~wout.raised /\ workflow.steps = wout.before)

C16_Witness ==
    /\ wout.op = "remove_step"
    /\ wout.a = -1
    /\ Len(wout.before) = 3
    /\ wout.raised

\* C17: with indices in range, move_step(a, b) puts the step that was at
\* index a at index b and keeps the order of all the other steps, and
\* remove_step(i) returns the step at index i and deletes exactly it; on the
\* steps 1, 2, 3, move_step(0, 2) gives 2, 3, 1.
C17_MoveAndRemove ==
    /\ (wout.op = "move_step" /\ InRange(wout.a, wout.before) /\ InRange(wout.b, wout.before)) =>
          /\ ~wout.raised
          /\ Len(workflow.steps) = Len(wout.before)
          /\ workflow.steps[wout.b + 1] = wout.before[wout.a + 1]
          /\ Without(workflow.steps, wout.b) = Without(wout.before, wout.a)
    /\ (wout.op = "remove_step" /\ InRange(wout.a, wout.before)) =>
          /\ ~wout.raised
          /\ wout.value = wout.before[wout.a + 1]
          /\ workflow.steps = Without(wout.before, wout.a)
    /\ (wout.op = "move_step" /\ wout.before = <<Step1, Step2, Step3>> /\ wout.a = 0 /\ wout.b = 2) =>
          workflow.steps = <<Step2, Step3, Step1>>

C17_Witness ==
    /\ wout.op = "move_step"
    /\ wout.before = <<Step1, Step2, Step3>>
    /\ wout.a = 0 /\ wout.b = 2
    /\ workflow.steps = <<Step2, Step3, Step1>>

\* The items of a list.
Items(xs) == {xs[i] : i \in 1..Len(xs)}

\* C18: after save(w), load(w.name) returns a workflow with the name, the
\* description and the steps of w, and list_names() contains w.name, also
\* when a workflow was stored under that name before; load(name) and
\* delete(name) fail with not-found exactly when nothing is stored for
\* name; after delete(name), load(name) fails with not-found and name is
\* not listed. A workflow is stored for a name from the save of a workflow
\* whose name addresses the same file until the delete of such a name.
C18_RepositoryRoundTrip ==
    /\ DOMAIN files = DOMAIN kept
    /\ wout.op = "save" =>
          LET loaded == repo_load(files, wout.name)
          IN  /\ ~loaded.raised
              /\ loaded.value.name = wout.value.name
              /\ loaded.value.description = wout.value.description
              /\ loaded.value.steps = wout.value.steps
              /\ ~list_names(files).raised
              /\ wout.name.v \in Items(list_names(files).value)
    /\ wout.op = "load" =>
          /\ wout.raised <=> ~wout.stored
          /\ ~wout.raised => wout.value = kept[path_for(wout.name)]
    /\ wout.op = "delete" =>
          /\ wout.raised <=> ~wout.stored
          /\ ~wout.raised =>
                /\ repo_load(files, wout.name) = Raised("FileNotFoundError")
                /\ wout.name.v \notin Items(list_names(files).value)
    /\ wout.op = "list_names" =>
          /\ ~wout.raised
          /\ Items(wout.value) = {kept[stem].name.v : stem \in DOMAIN kept}

C18_Witness ==
    /\ wout.op = "load"
    /\ ~wout.raised
    /\ wout.name = PyStr(<<"a", " ", "b">>)
    /\ wout.value.steps = <<Step1, Step3>>
    /\ wout.value.description = PyStr(<<"t">>)
    /\ Cardinality(DOMAIN files) = 2

\* ------------------------------------------------- claims on the store
\* C20: the event_count finish_session() writes to session.json is the
\* number of append_event() calls since the start_session() that opened the
\* session, and the session's events file holds that many records;
\* append_event() with no open session records nothing; start_session()
\* while a session is open returns the same directory and keeps the count;
\* finish_session() resets the store, so the next session starts at zero.
C20_EventCount ==
    /\ [](\A dir \in DOMAIN run_root :
            run_root[dir].session_json # PyNone =>
                run_root[dir].session_json.event_count = Len(run_root[dir].events))
    /\ []((sout.op = "finish_session" /\ sout.open) =>
            (/\ run_root[sout.value].session_json.event_count = sout.appends
             /\ Len(run_root[sout.value].events) = sout.appends))
    /\ [](sout.op = "finish_session" => (session_dir = PyNone /\ event_count = 0))
    /\ []((sout.op = "start_session" /\ ~sout.open) =>
            (/\ event_count = 0
             /\ run_root[session_dir].events = <<>>
             /\ run_root[session_dir].session_json = PyNone))
    /\ [](session_dir # PyNone => event_count = appends)
    /\ [][(sout'.op = "append_event" /\ session_dir = PyNone) =>
            (run_root' = run_root /\ event_count' = event_count /\ session_dir' = PyNone)]_vars
    /\ [][(sout'.op = "start_session" /\ session_dir # PyNone) =>
            (sout'.value = session_dir /\ session_dir' = session_dir
             /\ event_count' = event_count /\ run_root' = run_root)]_vars

C20_Witness ==
    /\ sout.op = "finish_session" /\ sout.open
    /\ sout.appends = 2
    /\ sout.value.suffix = 2
    /\ run_root[sout.value].session_json.event_count = 2

\* ------------------------------------------- more claims on the sessions
\* The field of the result that holds the computed value's text:
\* ExecutionResult.result in executor.py, result_text in runtime/kernel.py.
ResultText(res) == IF impl = "KernelSession" THEN res.result ELSE res.result_text

\* The event the read of this step returned is an execute_result or a
\* display_data of the current request with a non-empty text/plain entry.
TextEventRead ==
    /\ IopubRead
    /\ lastMsg'.parent = msg_id
    /\ lastMsg'.msg_type \in {"execute_result", "display_data"}
    /\ Truthy(lastMsg'.data.text_plain)

\* execute() returns its result in this step.
Returns == pc # "idle" /\ pc' = "idle" /\ ~ret'.raised

\* C21: while execute() drains the stream, every execute_result and every
\* display_data event of the request that carries a text/plain text sets the
\* result's text to it, both kinds alike; no other event changes the text,
\* and the result returned carries the text as the drain left it, so the
\* last such event in arrival order wins.
C21_LastTextWins ==
    /\ [][TextEventRead => ResultText(result') = lastMsg'.data.text_plain]_vars
    /\ [][(IopubRead /\ ~TextEventRead /\ pc' # "idle") =>
            ResultText(result') = ResultText(result)]_vars
    /\ [][Returns => ResultText(ret'.value) = ResultText(result)]_vars

\* C22: when an error event of the request has set the result's error
\* during the drain, the reply's error fields do not replace it: the result
\* KernelSession.execute returns keeps the stream's error, and the reply's
\* ename / evalue / traceback are merged only when the drain left the error
\* unset.
C22_StreamErrorKept ==
    /\ [][(impl = "KernelSession" /\ Returns /\ result.error # PyNone) =>
            ret'.value.error = result.error]_vars
    /\ [][(impl = "KernelSession" /\ Returns /\ result.error = PyNone) =>
            ret'.value.error = IF reply.status = "error" THEN KernelError(reply) ELSE PyNone]_vars

\* The loop over the stream ends at the idle status of the request and at
\* nothing else, and what the call returns is what the loop had built then.
DrainEndsAtIdle ==
    /\ [][(IopubRead /\ MatchingIdle(lastMsg')) => pc' \in {"idle", "drain"}]_vars
    /\ [][(IopubRead /\ ~MatchingIdle(lastMsg')) => pc' = "iopub"]_vars
    /\ [][(pc # "drain" /\ pc' = "drain") => (IopubRead /\ MatchingIdle(lastMsg'))]_vars
    /\ [][Returns => [ret'.value EXCEPT !.error = PyNone] = [result EXCEPT !.error = PyNone]]_vars
    /\ [][pc = "drain" => (Returns /\ ret'.value = result)]_vars

\* A call that has sent its request ends, and it ends by returning its
\* result unless one of its reads failed.
EventuallyReturns ==
    (pc # "idle") ~> (pc = "idle" /\ ret.op = "execute" /\ (ret.raised => lastMsg.msg_type = "timeout"))

\* C23 as claimed: execute() returns a result only after it has received
\* both the reply of its request and the idle status of its request; the
\* loop over the stream ends at the first such idle status and at nothing
\* else; and when the backend delivers the reply and the idle status,
\* execute() eventually returns.
C23_ReturnsAfterReplyAndIdle ==
    /\ [][Returns =>
            IF impl = "KernelSession"
            THEN MatchingReply(reply) /\ MatchingIdle(lastMsg')
            ELSE pc = "drain" /\ MatchingReply(lastMsg')]_vars
    /\ DrainEndsAtIdle
    /\ EventuallyReturns

\* C23 amended: KernelSession.execute returns only after the reply of its
\* request and then the idle status of its request; KernelRunner.execute
\* returns only after the idle status of its request and one further read
\* of the reply channel, whatever that read gave (the reply, the reply of
\* another request, or a timeout). In both, the loop over the stream ends
\* at the first idle status of the request and at nothing else, nothing is
\* aggregated after it, and a call whose reads do not fail eventually
\* returns.
C23_ReturnsAfterIdle ==
    /\ [][Returns =>
            IF impl = "KernelSession"
            THEN MatchingReply(reply) /\ MatchingIdle(lastMsg')
            ELSE pc = "drain" /\ lastMsg'.msg_type \in {"execute_reply", "timeout"}]_vars
    /\ DrainEndsAtIdle
    /\ EventuallyReturns

C23_Witness ==
    /\ impl = "KernelRunner" /\ pc = "idle"
    /\ ret.op = "execute" /\ ~ret.raised
    /\ lastMsg.msg_type = "execute_reply" /\ lastMsg.parent # msg_id
    /\ ret.value.stdout # ""
    /\ reads = MaxReads + 2

\* A read of the reply channel inside _get_shell_reply has just returned a
\* message (this step).
ShellRead == pc = "shell" /\ reads' = reads + 1

\* C29: a failed read that ends execute() for request A leaves the session
\* Running, with its client and backend as they were; in the next execute()
\* on that session, for request B, a reply or an event of another request
\* (A's late reply, A's late events, A's idle status) is discarded: it
\* changes nothing of B's result and ends neither of B's loops; the reply
\* KernelSession merges is B's, which alone gives B's execution_count and
\* reply error, and what KernelRunner's draining read returns changes
\* nothing of the result.
C29_LateMessagesDiscarded ==
    /\ [][(ReadTimedOut /\ pc \in {"shell", "iopub"}) =>
            (/\ is_running' = is_running /\ client' = client /\ kernel' = kernel
             /\ Running(Sess) /\ pc' = "idle")]_vars
    /\ [][(ShellRead /\ call.afterTimeout /\ lastMsg'.parent # msg_id) =>
            (pc' = "shell" /\ reply' = reply /\ result' = result)]_vars
    /\ [][(IopubRead /\ call.afterTimeout /\ lastMsg'.parent # msg_id) =>
            (pc' = "iopub" /\ reply' = reply /\ result' = result)]_vars
    /\ [][(pc = "drain" /\ call.afterTimeout) => (Returns /\ ret'.value = result)]_vars
    /\ [](call.op = "execute" /\ call.afterTimeout /\ impl = "KernelSession"
          /\ pc = "idle" /\ ret.op = "execute" /\ ~ret.raised =>
            /\ MatchingReply(reply)
            /\ ret.value.execution_count = reply.execution_count
            /\ reply.status = "error" => ret.value.error = KernelError(reply)
            /\ (reply.status # "error" /\ ~heard.error) => ret.value.error = PyNone)

C29_Witness ==
    /\ call.op = "execute" /\ call.afterTimeout
    /\ impl = "KernelSession" /\ pc = "iopub"
    /\ msg_id = 2 /\ reads = 3
    /\ MatchingReply(reply) /\ reply.status = "ok"
    /\ lastMsg.parent = 1 /\ lastMsg.msg_type = "status" /\ lastMsg.execution_state = "idle"
    /\ result.stdout = ""

\* ------------------------------------------------- more claims on run()
\* The positions of the outcomes that carry an execution, in order.
ExecutionOutcomes == SelectSeq(run_result.outcomes, LAMBDA o : o.execution # PyNone)

\* The execute calls of the trace that returned a result, failed or not.
ExecutesReturned == {e \in CallsOf({"execute"}) : ~RaisedIn(trace[e])}

\* C24: run() adds exactly one cell to the history for every Execute step
\* whose execute() returned, the failing one included: the add is the call
\* right after the execute, for the same step, before any suggest_fix, and
\* the adds come in step order; nothing is added for a Plan step. The cell
\* holds the step's code and the result's text and error name. When run()
\* has returned, as many cells were added as outcomes carry an execution,
\* and after a failed run the last cell carries the failing result's error
\* name.
C24_OneCellPerExecutedStep ==
    /\ Len(added) = Cardinality(ExecutesReturned)
    /\ Cardinality(CallsOf({"history.add"})) = Len(added)
    /\ \A e \in ExecutesReturned :
          e < Len(trace) /\ trace[e + 1].call = "history.add" /\ trace[e + 1].index = trace[e].index
    /\ \A e \in CallsOf({"history.add"}) :
          /\ workflow.steps[trace[e].index + 1].step_type = "execute"
          /\ e - 1 \in ExecutesReturned
          /\ \A f \in CallsOf({"history.add"}) : f < e => trace[f].index < trace[e].index
    /\ \A e \in CallsOf({"suggest_fix"}) :
          trace[e - 1].call = "history.add" /\ trace[e - 1].index = trace[e].index
    /\ Len(ExecutionOutcomes) <= Len(added)
    /\ \A k \in 1..Len(ExecutionOutcomes) :
          LET o == ExecutionOutcomes[k]
          IN  /\ added[k].code = o.step.code
              /\ added[k].result = o.execution.result
              /\ added[k].error_name = (IF o.execution.error = PyNone THEN PyNone ELSE o.execution.error.name)
    /\ rpc = "returned" =>
          /\ Len(added) = Len(ExecutionOutcomes)
          /\ run_result.failed_step_index # PyNone =>
                /\ added # <<>>
                /\ added[Len(added)].error_name # PyNone
                /\ added[Len(added)].error_name =
                      run_result.outcomes[Len(run_result.outcomes)].execution.error.name

\* A run of execute, plan, execute whose last step failed: two cells, the
\* first without an error, the second with the failing step's.
C24_Witness ==
    /\ rpc = "returned"
    /\ Len(run_result.outcomes) = 3
    /\ run_result.failed_step_index = PyInt(2)
    /\ run_result.outcomes[2].plan # PyNone
    /\ Len(added) = 2
    /\ added[1].error_name = PyNone /\ added[1].code = Step2.code
    /\ added[2].error_name = PyStr("ZeroDivisionError") /\ added[2].code = Step3.code

\* run() has ended and no call made inside the for loop raised: the loop
\* ran to its last step or stopped at a step whose result failed.
LoopEndedInOrder ==
    /\ RunEnded
    /\ \A e \in 1..Len(trace) : trace[e].index >= 0 => ~RaisedIn(trace[e])

\* C25: run() calls history.save at most once and never while the loop is
\* going on: the call comes after every call made for a step. In a run
\* whose loop ended by completion or by stopping on a failed step, the save
\* is made if and only if some execute() returned and a history file was
\* given; a Plan-only run or a run without a history file saves nothing and
\* leaves the file alone. A save that returned has written the history as
\* it is after the last step.
C25_SavedOnceAfterLastStep ==
    /\ Cardinality(CallsOf({"history.save"})) <= 1
    /\ rpc = "loop" => CallsOf({"history.save"}) = {}
    /\ \A e \in CallsOf({"history.save"}) :
          /\ \A f \in 1..Len(trace) : trace[f].index >= 0 => f < e
          /\ trace[e].end = "returned" =>
                (file.exists /\ file.text = to_json(entries) /\ saved = entries)
    /\ LoopEndedInOrder =>
          (CallsOf({"history.save"}) # {} <=> (ExecutesReturned # {} /\ opts.history_file))
    /\ CallsOf({"history.save"}) = {} => ~file.exists

\* A run of two execute steps with a history file, saved once at the end
\* with both cells.
C25_Witness ==
    /\ rpc = "returned"
    /\ opts.history_file
    /\ Cardinality(ExecutesReturned) = 2
    /\ Cardinality(CallsOf({"history.save"})) = 1
    /\ file.exists /\ Len(saved) = 2 /\ saved = added

\* C26: one run() calls suggest_fix at most once, and only for an Execute
\* step whose execute() returned a failed result, with suggest on and a
\* debugging agent supplied: never for a Plan step, never for a result that
\* succeeded. The call is given the failing step's code and the error name,
\* value and traceback of that step's result. An outcome carries a
\* suggestion if and only if its execution failed, suggest was on and a
\* debugging agent was supplied.
C26_SuggestionOnlyForFailedStep ==
    /\ Cardinality(CallsOf({"suggest_fix"})) <= 1
    /\ \A e \in CallsOf({"suggest_fix"}) :
          LET step == workflow.steps[trace[e].index + 1]
              cell == added[Len(added)]
          IN  /\ opts.suggest /\ opts.debugging_agent
              /\ step.step_type = "execute"
              /\ \E x \in CallsOf({"execute"}) :
                    /\ x < e /\ trace[x].index = trace[e].index /\ trace[x].end = "failed"
                    /\ \A y \in CallsOf({"execute"}) : y <= x
              /\ trace[e].args.failing_code = step.code
              /\ cell.error_name # PyNone
              /\ trace[e].args.error_name = cell.error_name
              /\ trace[e].args.error_value = cell.error_value
              /\ trace[e].args.traceback = cell.traceback
              /\ ~RaisedIn(trace[e]) =>
                    LET o == run_result.outcomes[Len(run_result.outcomes)]
                    IN  /\ Len(run_result.outcomes) = trace[e].index + 1
                        /\ o.suggestion # PyNone
                        /\ trace[e].args.error_name = o.execution.error.name
                        /\ trace[e].args.error_value = o.execution.error.value
                        /\ trace[e].args.traceback = o.execution.error.traceback
    /\ \A k \in 1..Len(run_result.outcomes) :
          LET o == run_result.outcomes[k]
          IN  o.suggestion # PyNone <=>
                 /\ o.execution # PyNone
                 /\ o.execution.error # PyNone
                 /\ opts.suggest /\ opts.debugging_agent

\* The second of two different execute steps failed and a fix was given
\* for it.
C26_Witness ==
    /\ rpc = "returned"
    /\ run_result.failed_step_index = PyInt(1)
    /\ workflow.steps[1] = Step2 /\ workflow.steps[2] = Step3
    /\ run_result.outcomes[1].suggestion = PyNone
    /\ run_result.outcomes[2].suggestion = DebugSuggestion("fix")
    /\ \E e \in CallsOf({"suggest_fix"}) :
          /\ trace[e].args.failing_code = Step3.code
          /\ trace[e].args.error_name = PyStr("ZeroDivisionError")

\* C28: every result run() returns is consistent: outcome k is the outcome
\* of step k of the workflow; without a failed_step_index there is one
\* outcome per step and no execution in them has an error; with
\* failed_step_index = k the outcomes are those of steps 0..k, the last one
\* is an Execute outcome whose execution has an error, and no earlier
\* execution has one.
C28_ResultConsistent ==
    rpc = "returned" =>
        LET outcomes == run_result.outcomes
            Failed(k) == outcomes[k].execution # PyNone /\ outcomes[k].execution.error # PyNone
        IN  /\ Len(outcomes) <= Len(workflow.steps)
            /\ \A k \in 1..Len(outcomes) : outcomes[k].step = workflow.steps[k]
            /\ run_result.failed_step_index = PyNone =>
                  /\ Len(outcomes) = Len(workflow.steps)
                  /\ \A k \in 1..Len(outcomes) : ~Failed(k)
            /\ run_result.failed_step_index # PyNone =>
                  /\ run_result.failed_step_index.v = Len(outcomes) - 1
                  /\ outcomes[Len(outcomes)].step.step_type = "execute"
                  /\ Failed(Len(outcomes))
                  /\ \A k \in 1..(Len(outcomes) - 1) : ~Failed(k)

\* A run that stopped at its second step, an execute after a plan, with a
\* step left unprocessed.
C28_Witness ==
    /\ rpc = "returned"
    /\ Len(workflow.steps) = 3
    /\ run_result.failed_step_index = PyInt(1)
    /\ Len(run_result.outcomes) = 2
    /\ run_result.outcomes[1].plan # PyNone
    /\ run_result.outcomes[2].execution.error # PyNone

\* ------------------------------------------- more claims on the workflows
\* x is a string of at least one character.
NonEmptyText(x) == x # PyNone /\ x.v # <<>>

\* The field the step's variant requires is a non-empty string.
RequiredFieldSet(step_type, goal, code) ==
    /\ step_type \in {"plan", "Plan"} => NonEmptyText(goal)
    /\ step_type \in {"execute", "Execute"} => NonEmptyText(code)

\* C27: constructing a WorkflowStep raises exactly when the field its
\* variant requires (goal for a plan, code for an execute) is None or the
\* empty string, and then nothing is added to the workflow; add_step of a
\* step whose required field was emptied after construction raises and
\* leaves the steps as they were; and a step that add_step appended has its
\* required field set and is the last of the steps.
C27_RequiredFieldEnforced ==
    /\ wout.op = "WorkflowStep" =>
          /\ wout.raised <=> ~RequiredFieldSet(wout.args.step_type, wout.args.goal, wout.args.code)
          /\ wout.raised => workflow.steps = wout.before
          /\ ~wout.raised =>
                LET step == workflow.steps[Len(workflow.steps)]
                IN  /\ Len(workflow.steps) = Len(wout.before) + 1
                    /\ step.goal = wout.args.goal /\ step.code = wout.args.code
                    /\ RequiredFieldSet(step.step_type, step.goal, step.code)
    /\ wout.op = "add_step" =>
          /\ wout.raised <=> ~RequiredFieldSet(wout.step.step_type, wout.step.goal, wout.step.code)
          /\ wout.raised => workflow.steps = wout.before
          /\ ~wout.raised => workflow.steps = Append(wout.before, wout.step)

\* An execute step whose code was emptied after construction was refused
\* by add_step on a workflow of two steps.
C27_Witness ==
    /\ wout.op = "add_step"
    /\ wout.step = StepEmptied
    /\ wout.raised
    /\ Len(wout.before) = 2
    /\ workflow.steps = wout.before

\* ------------------------------------------- more claims on the repository
\* The step is save(workflow) or delete(name) under the name a.
SaveOrDelete(a) == wout'.op \in {"save", "delete"} /\ wout'.name = a

\* C30: save or delete under a name A leaves what load(B) gives unchanged
\* for every other name B, also when A and B differ only in letter case,
\* surrounding whitespace or non-alphanumeric characters.
C30_OtherNamesUntouched ==
    [][\A a \in Names : \A b \in Names \ {a} :
          SaveOrDelete(a) => repo_load(files', b) = repo_load(files, b)]_vars

====
